---- MODULE Spec2Model ----
(***************************************************************************)
(* Model of peerko: the wire codec (src/message/format.rs), the neighbour  *)
(* directory (src/peer/structures.rs) and the peer runtime with its three  *)
(* activities (src/peer/mod.rs).                                           *)
(*                                                                         *)
(* Strings are sequences of bytes (0..255); a byte buffer is a sequence of *)
(* bytes indexed from 1 (Rust index i is TLA+ index i+1).                  *)
(***************************************************************************)
EXTENDS Integers, Sequences, FiniteSets, TLC

VARIABLES
  \* ---- codec harness (pure functions of format.rs applied to an input)
  c_op, c_in, c_out,
  \* ---- NeighbourMap harness (structures.rs applied to one map)
  m_peers, m_now, m_last,
  \* ---- peer runtime (mod.rs)
  peer_map,     \* HashMap<String, NeighbourMap>: group |-> sequence of entries
  lock,         \* holder of the peer_map mutex: "none", "hb", "handler", "cmd"
  poisoned,     \* the mutex was held by a thread that panicked
  now,          \* Instant::now()
  bootstrap,    \* Option<SocketAddr> given at construction
  env,          \* the run's environment: the datagrams the network delivers, the lines the front-end feeds
  hb_pc, hb_groups, hb_peers,
  hb_start,     \* the clock and the entries as the current round took the lock
  h_pc, h_packet,
  h_msg,        \* the decoded message of h_packet, once decoded
  cmd_pc, cmd_str, cmd_peers,
  sent,         \* per activity: the datagrams handed to transport.send in its current operation
  send_err,     \* per activity: the latest transport.send of its current operation failed
  msg_chan,     \* msg_tx / msg_rx notification channel
  exited,       \* the process has terminated (panic of the main thread)
  rx_open,      \* a Receiver of the notification channel exists: the Peer's msg_rx or a clone held by the front-end
  history,      \* what the run did so far: the time of the last sweep, and for each entry when and by which message it was created and how many Alives renewed it
  \* ---- Router (routing/router.rs): one router, its senders and the thread that receives
  r_chan,       \* the tx_in / rx_in channel: the messages sent and not yet received
  r_senders,    \* per sender thread: "ready" before its send, "sent" after
  r_pc,         \* the receiving thread: "idle" between calls, "recv" or "recv_timeout" inside one
  r_ret,        \* what the latest call of recv / recv_timeout returned
  r_log,        \* the Ok results returned so far, each with the sender of its message
  \* ---- several peers (mod.rs) exchanging datagrams over one network
  n_run,        \* the run: its nodes (peer id, address, group, bootstrap), horizon, how many "req" commands are fed, whether n_hist is kept
  n_dir,        \* per node: its peer_map
  n_net,        \* the datagrams in flight
  n_now,        \* Instant::now()
  n_up,         \* the nodes whose run() has started
  n_cmds,       \* the number of "req" commands fed so far
  n_hist        \* what the run did so far: every datagram ever sent, per node the clock of its latest sweep

codec_vars == <<c_op, c_in, c_out>>
map_vars == <<m_peers, m_now, m_last>>
rt_vars == <<peer_map, lock, poisoned, now, bootstrap, env, hb_pc, hb_groups, hb_peers, hb_start, h_pc, h_packet, h_msg, cmd_pc, cmd_str, cmd_peers, sent, send_err, msg_chan, exited, rx_open, history>>
router_vars == <<r_chan, r_senders, r_pc, r_ret, r_log>>
net_vars == <<n_run, n_dir, n_net, n_now, n_up, n_cmds, n_hist>>
ext_vars == <<router_vars, net_vars>>
vars == <<codec_vars, map_vars, rt_vars, ext_vars>>

(***************************************************************************)
(* Results of fallible operations: Ok(v), Err(FormatError) or a panic      *)
(* (unwrap / expect / panic! / slice index out of range).                  *)
(***************************************************************************)
Ok(v) == [kind |-> "Ok", val |-> v]
FormatError == [kind |-> "Err", err |-> "FormatError"]
Panic == [kind |-> "Panic"]

Byte == 0..255
Zeros(n) == [i \in 1..n |-> 0]
Min(a, b) == IF a < b THEN a ELSE b

(***************************************************************************)
(* format.rs constants and field widths                                    *)
(***************************************************************************)
MAGIC_HEADER == 157
NAME_LEN == 32
REQ_LEN == 64
PEER_REC_LEN == 38
MAX_RES_PEERS == 5

MessageTypes == {"Alive", "MemberReq", "MemberRes", "Chat"}

\* enum MessageType, #[repr(u8)]
TypeCode(t) == CASE t = "Alive" -> 1 [] t = "MemberReq" -> 2 [] t = "MemberRes" -> 4 [] t = "Chat" -> 8

\* impl From<u8> for MessageType: any other value panics
MessageTypeFrom(val) ==
  CASE val = 1 -> Ok("Alive")
    [] val = 2 -> Ok("MemberReq")
    [] val = 4 -> Ok("MemberRes")
    [] val = 8 -> Ok("Chat")
    [] OTHER -> Panic

\* Header::new
HeaderNew(version, type, size) == [magic_bytes |-> MAGIC_HEADER, version |-> version, msg_type |-> type, size |-> size]

\* the Header encoder writing the size low byte first
HeaderInto_LittleEndian(h) == <<h.magic_bytes, ((h.version * 16) % 256) + TypeCode(h.msg_type), h.size % 256, h.size \div 256>>

\* impl Into<Vec<u8>> for Header. (version << 4) on a u8 drops the high bits;
\* its low nibble is zero and the type code is below 16, so the bitwise or
\* is a sum.
HeaderInto(h) == <<h.magic_bytes, ((h.version * 16) % 256) + TypeCode(h.msg_type), h.size \div 256, h.size % 256>>

\* impl TryFrom<Vec<u8>> for Header. Every read is unwrapped; the version is
\* version_type & 0xF0 (not shifted), the type is From<u8> of the low nibble.
HeaderTryFrom(value) ==
  IF Len(value) < 4 THEN Panic
  ELSE LET version_type == value[2]
           type == MessageTypeFrom(version_type % 16)
       IN IF type.kind = "Panic" THEN Panic
          ELSE Ok([magic_bytes |-> value[1], version |-> version_type - (version_type % 16), msg_type |-> type.val, size |-> value[3] * 256 + value[4]])

\* grp_buf.into_iter().filter(|s| *s != 0).collect()
StripZeros(buf) == SelectSeq(buf, LAMBDA b : b # 0)

IsCont(b) == b >= 128 /\ b <= 191

\* String::from_utf8 succeeds: well-formed UTF-8 from index i on
RECURSIVE Utf8From(_, _)
Utf8From(s, i) ==
  IF i > Len(s) THEN TRUE
  ELSE LET b == s[i]
           c(k) == IF i + k <= Len(s) THEN s[i + k] ELSE 0
       IN CASE b < 128 -> Utf8From(s, i + 1)
            [] b >= 194 /\ b <= 223 -> IsCont(c(1)) /\ Utf8From(s, i + 2)
            [] b = 224 -> c(1) >= 160 /\ c(1) <= 191 /\ IsCont(c(2)) /\ Utf8From(s, i + 3)
            [] b = 237 -> c(1) >= 128 /\ c(1) <= 159 /\ IsCont(c(2)) /\ Utf8From(s, i + 3)
            [] b >= 225 /\ b <= 239 /\ b # 237 -> IsCont(c(1)) /\ IsCont(c(2)) /\ Utf8From(s, i + 3)
            [] b = 240 -> c(1) >= 144 /\ c(1) <= 191 /\ IsCont(c(2)) /\ IsCont(c(3)) /\ Utf8From(s, i + 4)
            [] b >= 241 /\ b <= 243 -> IsCont(c(1)) /\ IsCont(c(2)) /\ IsCont(c(3)) /\ Utf8From(s, i + 4)
            [] b = 244 -> c(1) >= 128 /\ c(1) <= 143 /\ IsCont(c(2)) /\ IsCont(c(3)) /\ Utf8From(s, i + 4)
            [] OTHER -> FALSE

Utf8Valid(s) == Utf8From(s, 1)

\* buf[off .. off + bytes.len()].copy_from_slice(bytes), off counted from 0;
\* the caller checks that the range lies inside buf
CopyInto(buf, off, bytes) == [i \in 1..Len(buf) |-> IF i > off /\ i <= off + Len(bytes) THEN bytes[i - off] ELSE buf[i]]

\* MemberRequest::new
MemberRequestNew(peer_id, group) ==
  IF Len(group) > NAME_LEN THEN FormatError
  ELSE IF Len(peer_id) > NAME_LEN THEN FormatError
  ELSE Ok([group |-> group, peer_id |-> peer_id])

\* the request encoder writing the peer id first and the group second
MemberRequestInto_Swapped(req) ==
  IF Len(req.peer_id) > REQ_LEN \/ NAME_LEN + Len(req.group) > REQ_LEN THEN Panic
  ELSE Ok(CopyInto(CopyInto(Zeros(REQ_LEN), 0, req.peer_id), NAME_LEN, req.group))

\* impl Into<Vec<u8>> for MemberRequest
MemberRequestInto(req) ==
  IF Len(req.group) > REQ_LEN \/ NAME_LEN + Len(req.peer_id) > REQ_LEN THEN Panic
  ELSE Ok(CopyInto(CopyInto(Zeros(REQ_LEN), 0, req.group), NAME_LEN, req.peer_id))

\* impl TryFrom<Vec<u8>> for MemberRequest
MemberRequestTryFrom(value) ==
  IF Len(value) < REQ_LEN THEN Panic
  ELSE LET group == StripZeros(SubSeq(value, 1, NAME_LEN))
           peer_id == StripZeros(SubSeq(value, NAME_LEN + 1, REQ_LEN))
       IN IF ~Utf8Valid(group) \/ ~Utf8Valid(peer_id) THEN Panic
          ELSE Ok([group |-> group, peer_id |-> peer_id])

\* MemberResponse::new without its limit on the number of peers
MemberResponseNew_NoCap(group, peers) ==
  IF Len(group) > NAME_LEN THEN FormatError
  ELSE Ok([group |-> group, member_number |-> Len(peers) % 256, peers |-> peers])

\* MemberResponse::new
MemberResponseNew(group, peers) ==
  IF Len(peers) > MAX_RES_PEERS THEN FormatError
  ELSE IF Len(group) > NAME_LEN THEN FormatError
  ELSE Ok([group |-> group, member_number |-> Len(peers), peers |-> peers])

\* the body of the for loop of MemberResponse::into, peers i..n (i from 1)
RECURSIVE ResWritePeers(_, _, _)
ResWritePeers(buf, peers, i) ==
  IF i > Len(peers) THEN Ok(buf)
  ELSE LET offset == (NAME_LEN + 1) + PEER_REC_LEN * (i - 1)
           id == peers[i][1]
           addr == peers[i][2]
       IN IF offset + Len(id) > Len(buf) THEN Panic
          ELSE ResWritePeers(CopyInto(CopyInto(CopyInto(buf, offset, id), offset + NAME_LEN, addr.ip), offset + NAME_LEN + 4, <<addr.port \div 256, addr.port % 256>>), peers, i + 1)

\* impl Into<Vec<u8>> for MemberResponse (addresses are IPv4)
MemberResponseInto(res) ==
  LET msg_size == NAME_LEN + 1 + PEER_REC_LEN * Len(res.peers)
  IN IF Len(res.group) > msg_size THEN Panic
     ELSE ResWritePeers([CopyInto(Zeros(msg_size), 0, res.group) EXCEPT ![NAME_LEN + 1] = Len(res.peers) % 256], res.peers, 1)

\* the record reader taking the port low byte first
RECURSIVE ResReadPeers_LittleEndian(_, _, _)
ResReadPeers_LittleEndian(value, off, n) ==
  IF n = 0 THEN Ok(<<>>)
  ELSE IF Len(value) < off + PEER_REC_LEN THEN Panic
  ELSE LET peer_id == StripZeros(SubSeq(value, off + 1, off + NAME_LEN))
           ip == SubSeq(value, off + NAME_LEN + 1, off + NAME_LEN + 4)
           port == value[off + NAME_LEN + 6] * 256 + value[off + NAME_LEN + 5]
           rest == ResReadPeers_LittleEndian(value, off + PEER_REC_LEN, n - 1)
       IN IF ~Utf8Valid(peer_id) \/ rest.kind = "Panic" THEN Panic
          ELSE Ok(<<<<peer_id, [ip |-> ip, port |-> port]>>>> \o rest.val)

\* the for loop of MemberResponse::try_from: n records read from offset off
RECURSIVE ResReadPeers(_, _, _)
ResReadPeers(value, off, n) ==
  IF n = 0 THEN Ok(<<>>)
  ELSE IF Len(value) < off + PEER_REC_LEN THEN Panic
  ELSE LET peer_id == StripZeros(SubSeq(value, off + 1, off + NAME_LEN))
           ip == SubSeq(value, off + NAME_LEN + 1, off + NAME_LEN + 4)
           port == value[off + NAME_LEN + 5] * 256 + value[off + NAME_LEN + 6]
           rest == ResReadPeers(value, off + PEER_REC_LEN, n - 1)
       IN IF ~Utf8Valid(peer_id) \/ rest.kind = "Panic" THEN Panic
          ELSE Ok(<<<<peer_id, [ip |-> ip, port |-> port]>>>> \o rest.val)

\* impl TryFrom<Vec<u8>> for MemberResponse
MemberResponseTryFrom(value) ==
  IF Len(value) < NAME_LEN + 1 THEN Panic
  ELSE LET group == StripZeros(SubSeq(value, 1, NAME_LEN))
           member_number == value[NAME_LEN + 1]
           peers == ResReadPeers(value, NAME_LEN + 1, member_number)
       IN IF ~Utf8Valid(group) \/ peers.kind = "Panic" THEN Panic
          ELSE Ok([group |-> group, member_number |-> member_number, peers |-> peers.val])

\* Chat::new
ChatNew(peer_id, msg) == [peer_id |-> peer_id, msg |-> msg]

\* impl Into<Vec<u8>> for Chat
ChatInto(chat) ==
  LET msg_size == NAME_LEN + 1 + Len(chat.msg)
  IN IF Len(chat.peer_id) > msg_size THEN Panic
     ELSE Ok(CopyInto([CopyInto(Zeros(msg_size), 0, chat.peer_id) EXCEPT ![NAME_LEN + 1] = Len(chat.msg) % 256], NAME_LEN + 1, chat.msg))

\* impl TryFrom<Vec<u8>> for Chat
ChatTryFrom(value) ==
  IF Len(value) < NAME_LEN + 1 THEN Panic
  ELSE LET peer_id == StripZeros(SubSeq(value, 1, NAME_LEN))
           msg_len == value[NAME_LEN + 1]
       IN IF ~Utf8Valid(peer_id) THEN Panic
          ELSE IF Len(value) < NAME_LEN + 1 + msg_len THEN Panic
          ELSE LET msg == StripZeros(SubSeq(value, NAME_LEN + 2, NAME_LEN + 1 + msg_len))
               IN IF ~Utf8Valid(msg) THEN Panic ELSE Ok([peer_id |-> peer_id, msg |-> msg])

\* Alive::new (payload "peer_id(32)")
AliveNew(peer_id) == [peer_id |-> peer_id]

\* Alive payload encoding: bytes 0-31 = peer id, zero padded
AliveInto(alive) ==
  IF Len(alive.peer_id) > NAME_LEN THEN FormatError
  ELSE Ok(CopyInto(Zeros(NAME_LEN), 0, alive.peer_id))

\* Alive payload decoding: a short or non-UTF8 buffer is a FormatError
AliveTryFrom(value) ==
  IF Len(value) < NAME_LEN THEN FormatError
  ELSE LET peer_id == StripZeros(SubSeq(value, 1, NAME_LEN))
       IN IF ~Utf8Valid(peer_id) THEN FormatError ELSE Ok([peer_id |-> peer_id])

\* MemberRequest::new(..)? followed by into(), as send_req chains them
EncodeRequest(peer_id, group) ==
  LET req == MemberRequestNew(peer_id, group)
  IN IF req.kind # "Ok" THEN req ELSE MemberRequestInto(req.val)

\* MemberResponse::new(..) followed by into(), as the MemberReq arm chains them
EncodeResponse(group, peers) ==
  LET res == MemberResponseNew(group, peers)
  IN IF res.kind # "Ok" THEN res ELSE MemberResponseInto(res.val)

\* Chat::new(..) followed by into(), as the chat broadcast chains them
EncodeChat(peer_id, msg) == ChatInto(ChatNew(peer_id, msg))

\* T::try_from for the payload type T selected by the caller
ContentTryFrom(T, value) ==
  CASE T = "Alive" -> AliveTryFrom(value)
    [] T = "MemberReq" -> MemberRequestTryFrom(value)
    [] T = "MemberRes" -> MemberResponseTryFrom(value)
    [] T = "Chat" -> ChatTryFrom(value)

\* try_from applied to the bytes of an encoder, when it produced bytes
DecodeEncoded(T, encoded) == IF encoded.kind # "Ok" THEN encoded ELSE ContentTryFrom(T, encoded.val)

\* impl Into<Vec<u8>> for Message<T>: the header bytes followed by the
\* encoded content (content is the Ok value of the payload encoder)
MessageInto(header, content_bytes) == HeaderInto(header) \o content_bytes

\* impl TryFrom<Vec<u8>> for Message<T>
MessageTryFrom(T, value) ==
  IF Len(value) < 4 THEN Panic
  ELSE LET header == HeaderTryFrom(SubSeq(value, 1, 4))
       IN IF header.kind = "Panic" THEN Panic
          ELSE LET content == ContentTryFrom(T, SubSeq(value, 5, Len(value)))
               IN CASE content.kind = "Panic" -> Panic
                    [] content.kind = "Err" -> FormatError
                    [] OTHER -> Ok([header |-> header.val, content |-> content.val])

(***************************************************************************)
(* structures.rs: NeighbourEntry and NeighbourMap. An entry is a record    *)
(* [id, addr, ttl]; a NeighbourMap is the sequence `peers`. Instant::now() *)
(* is passed as the parameter t.                                           *)
(***************************************************************************)
NeighbourEntryNew(id, addr, ttl) == [id |-> id, addr |-> addr, ttl |-> ttl]

\* an entry that never counts as expired
ttl_expired_Never(e, t) == FALSE

\* NeighbourEntry::ttl_expired
ttl_expired(e, t) == e.ttl < t

\* NeighbourEntry::update_ttl
update_ttl(e, value) == [e EXCEPT !.ttl = e.ttl + value]

\* NeighbourMap::contains_peer
contains_peer(peers, peer_id) == \E i \in 1..Len(peers) : peers[i].id = peer_id

\* an insert at the front of the Vec
insert_Front(peers, peer) == <<peer>> \o peers

\* NeighbourMap::insert
insert(peers, peer) == Append(peers, peer)

\* index of the entry find_peer / find_peer_mut return (0 is None)
find_peer_index(peers, peer_id) == IF contains_peer(peers, peer_id) THEN CHOOSE i \in 1..Len(peers) : peers[i].id = peer_id /\ \A j \in 1..(i - 1) : peers[j].id # peer_id ELSE 0

\* self.peers.iter().position(|e| e.ttl_expired()) (0 is None)
expired_position(peers, t) == IF \E i \in 1..Len(peers) : ttl_expired(peers[i], t) THEN CHOOSE i \in 1..Len(peers) : ttl_expired(peers[i], t) /\ \A j \in 1..(i - 1) : ~ttl_expired(peers[j], t) ELSE 0

\* Vec::remove(index)
VecRemove(s, i) == SubSeq(s, 1, i - 1) \o SubSeq(s, i + 1, Len(s))

\* NeighbourMap::remove_expired
RECURSIVE remove_expired(_, _)
remove_expired(peers, t) ==
  LET peer_index == expired_position(peers, t)
  IN IF peer_index = 0 THEN peers ELSE remove_expired(VecRemove(peers, peer_index), t)

\* NeighbourMap::count
count(peers) == Len(peers)

\* NeighbourMapIterator::next from position index on: Some(element) and
\* index += 1 while peers.get(index) is Some, then None
RECURSIVE IterFrom(_, _)
IterFrom(peers, index) == IF index < Len(peers) THEN <<peers[index + 1]>> \o IterFrom(peers, index + 1) ELSE <<>>

\* NeighbourMap::iter, as the sequence of the items it yields
iter(peers) == IterFrom(peers, 0)

(***************************************************************************)
(* Values the harnesses and the environment draw from                      *)
(***************************************************************************)
IdB == <<66>>
IdC == <<67>>
PeerIds == {IdB, IdC}
GroupG == <<103>>
GroupH == <<104>>
Groups == {GroupG, GroupH}
Addr1 == [ip |-> <<127, 0, 0, 1>>, port |-> 2000]
Addr2 == [ip |-> <<10, 0, 0, 2>>, port |-> 65022]
Addrs == {Addr1, Addr2}

\* bound of the codec harness: how far over a limit the inputs go
MaxOver == 2

\* bounds of the NeighbourMap harness
MaxMapLen == 3
MapMaxTime == 3

(***************************************************************************)
(* Codec harness: one operation of format.rs applied to an input           *)
(***************************************************************************)
SizeSamples == {0, 1, 113, 255, 256, 501, 65535}
HeaderInputs == {HeaderNew(v, t, s) : v \in 0..15, t \in MessageTypes, s \in SizeSamples}

\* every prefix of a buffer (truncations)
Prefixes(buf) == {SubSeq(buf, 1, n) : n \in 0..Len(buf)}

\* buf with the byte at Rust index i replaced by b
SetByte(buf, i, b) == [buf EXCEPT ![i + 1] = b]

SampleReq == MemberRequestInto(MemberRequestNew(IdB, GroupG).val).val
SampleRes == MemberResponseInto(MemberResponseNew(GroupG, <<<<IdB, Addr1>>, <<IdC, Addr2>>>>).val).val
SampleChat == ChatInto(ChatNew(IdB, <<104, 105>>)).val
SampleAlive == AliveInto(AliveNew(IdB)).val

\* header buffers: every version/type byte, and short buffers
HeaderBuffers == {<<MAGIC_HEADER, b, 0, 64>> : b \in Byte} \cup Prefixes(<<MAGIC_HEADER, 18, 0>>)

\* payload buffers per payload type: truncations of a valid payload and a
\* payload whose first name byte is not UTF-8
PayloadBuffers(T) ==
  LET valid == CASE T = "Alive" -> SampleAlive [] T = "MemberReq" -> SampleReq [] T = "MemberRes" -> SampleRes [] T = "Chat" -> SampleChat
  IN Prefixes(valid) \cup {SetByte(valid, 0, 255), SetByte(valid, 0, 195)}

\* whole frames: a header of the given type byte followed by a payload buffer
FrameBuffers(T) == {<<MAGIC_HEADER, 16 + TypeCode(T), 0, 0>> \o p : p \in PayloadBuffers(T)} \cup {<<MAGIC_HEADER, 16 + n, 0, 0>> \o SampleAlive : n \in {0, 3, 15}} \cup Prefixes(<<MAGIC_HEADER, 17, 0>>)

\* strings: n printable ASCII bytes, and samples around the field widths;
\* a Rust string is UTF-8 and may hold multi-byte characters and NUL
Str(n) == [i \in 1..n |-> 97 + ((i - 1) % 26)]
MyGroup == <<109, 121, 45, 103, 114, 111, 117, 112>>
NulName == <<103, 0, 104>>
AccentName == <<195, 169>>
NameSamples == {Str(0), IdB, MyGroup, NulName, AccentName, Str(NAME_LEN), Str(NAME_LEN + 1), Str(PEER_REC_LEN + MaxOver)}
MsgSamples == {Str(0), <<104, 105>>, Str(255), Str(256), Str(256 + MaxOver)}

\* a peer list of n records whose first id is the given one
PeerList(n, id) == [i \in 1..n |-> IF i = 1 THEN <<id, Addr2>> ELSE IF i % 2 = 0 THEN <<IdB, Addr1>> ELSE <<IdC, Addr2>>]
PeerLists == {PeerList(n, id) : n \in 0..(MAX_RES_PEERS + MaxOver), id \in NameSamples}

RequestInputs == {[peer_id |-> id, group |-> g] : id \in NameSamples, g \in NameSamples}
ResponseInputs == {[group |-> g, peers |-> l] : g \in {MyGroup, NulName, Str(NAME_LEN), Str(NAME_LEN + 1)}, l \in PeerLists}
ChatInputs == {[peer_id |-> id, msg |-> m] : id \in NameSamples, m \in MsgSamples}

\* UdpTransport::new: UdpSocket::bind fails when the port cannot be bound
TransportError == [kind |-> "Err", err |-> "TransportError"]
UdpTransportNew(port_free) == IF port_free THEN Ok([bound |-> TRUE]) ELSE TransportError

\* Peer::new: the channels and the empty map are created, the names are
\* stored as given and the result of UdpTransport::new is unwrapped
PeerNew(name, group, port_free) ==
  LET transport == UdpTransportNew(port_free)
  IN IF transport.kind # "Ok" THEN Panic
     ELSE Ok([name |-> name, group |-> group, transport |-> transport.val, peer_map |-> <<>>])

PeerInputs == {[name |-> n, group |-> g, port_free |-> f] : n \in NameSamples, g \in NameSamples, f \in BOOLEAN}

\* the inputs of each operation of the harness
CodecInputs(op) ==
  CASE op \in {"header_roundtrip", "encode_header"} -> HeaderInputs
    [] op \in {"encode_request", "request_roundtrip"} -> RequestInputs
    [] op \in {"encode_response", "response_roundtrip"} -> ResponseInputs
    [] op = "encode_chat" -> ChatInputs
    [] op = "peer_new" -> PeerInputs
    [] op = "decode_header" -> HeaderBuffers
    [] op = "decode_content" -> UNION {{[type |-> T, buf |-> buf] : buf \in PayloadBuffers(T)} : T \in MessageTypes}
    [] op = "decode_message" -> UNION {{[type |-> T, buf |-> buf] : buf \in FrameBuffers(T)} : T \in MessageTypes}
CodecOps == {"header_roundtrip", "decode_header", "decode_content", "decode_message", "encode_request", "request_roundtrip", "encode_response", "response_roundtrip", "encode_chat", "peer_new", "encode_header"}
Pending == [kind |-> "Pending"]

\* an operation and its input are chosen, the result is pending
CodecInit == c_op \in CodecOps /\ c_in \in CodecInputs(c_op) /\ c_out = Pending

\* decode(encode(h)) of a Header
CodecHeaderRoundTrip ==
  /\ c_op = "header_roundtrip" /\ c_out = Pending
  /\ c_out' = HeaderTryFrom(HeaderInto(c_in))
  /\ UNCHANGED <<c_op, c_in, map_vars, rt_vars, ext_vars>>

\* Header::try_from applied to a buffer
CodecDecodeHeader ==
  /\ c_op = "decode_header" /\ c_out = Pending
  /\ c_out' = HeaderTryFrom(c_in)
  /\ UNCHANGED <<c_op, c_in, map_vars, rt_vars, ext_vars>>

\* T::try_from applied to a payload buffer
CodecDecodeContent ==
  /\ c_op = "decode_content" /\ c_out = Pending
  /\ c_out' = ContentTryFrom(c_in.type, c_in.buf)
  /\ UNCHANGED <<c_op, c_in, map_vars, rt_vars, ext_vars>>

\* Message::<T>::try_from applied to a frame
CodecDecodeMessage ==
  /\ c_op = "decode_message" /\ c_out = Pending
  /\ c_out' = MessageTryFrom(c_in.type, c_in.buf)
  /\ UNCHANGED <<c_op, c_in, map_vars, rt_vars, ext_vars>>

\* MemberRequest::new and into
CodecEncodeRequest ==
  /\ c_op = "encode_request" /\ c_out = Pending
  /\ c_out' = EncodeRequest(c_in.peer_id, c_in.group)
  /\ UNCHANGED <<c_op, c_in, map_vars, rt_vars, ext_vars>>

\* MemberRequest::try_from(req.into())
CodecRequestRoundTrip ==
  /\ c_op = "request_roundtrip" /\ c_out = Pending
  /\ c_out' = DecodeEncoded("MemberReq", EncodeRequest(c_in.peer_id, c_in.group))
  /\ UNCHANGED <<c_op, c_in, map_vars, rt_vars, ext_vars>>

\* MemberResponse::new and into
CodecEncodeResponse ==
  /\ c_op = "encode_response" /\ c_out = Pending
  /\ c_out' = EncodeResponse(c_in.group, c_in.peers)
  /\ UNCHANGED <<c_op, c_in, map_vars, rt_vars, ext_vars>>

\* MemberResponse::try_from(res.into())
CodecResponseRoundTrip ==
  /\ c_op = "response_roundtrip" /\ c_out = Pending
  /\ c_out' = DecodeEncoded("MemberRes", EncodeResponse(c_in.group, c_in.peers))
  /\ UNCHANGED <<c_op, c_in, map_vars, rt_vars, ext_vars>>

\* Chat::new and into
CodecEncodeChat ==
  /\ c_op = "encode_chat" /\ c_out = Pending
  /\ c_out' = EncodeChat(c_in.peer_id, c_in.msg)
  /\ UNCHANGED <<c_op, c_in, map_vars, rt_vars, ext_vars>>

\* Header::into
CodecEncodeHeader ==
  /\ c_op = "encode_header" /\ c_out = Pending
  /\ c_out' = Ok(HeaderInto(c_in))
  /\ UNCHANGED <<c_op, c_in, map_vars, rt_vars, ext_vars>>

\* Peer::new
CallPeerNew ==
  /\ c_op = "peer_new" /\ c_out = Pending
  /\ c_out' = PeerNew(c_in.name, c_in.group, c_in.port_free)
  /\ UNCHANGED <<c_op, c_in, map_vars, rt_vars, ext_vars>>

CodecNext ==
  \/ CodecHeaderRoundTrip \/ CodecDecodeHeader \/ CodecDecodeContent \/ CodecDecodeMessage
  \/ CodecEncodeRequest \/ CodecRequestRoundTrip \/ CodecEncodeResponse \/ CodecResponseRoundTrip \/ CodecEncodeChat
  \/ CodecEncodeHeader \/ CallPeerNew

(***************************************************************************)
(* NeighbourMap harness: inserts, the clock, remove_expired                *)
(***************************************************************************)
MapInit == m_peers = <<>> /\ m_now = 0 /\ m_last = [op |-> "new"]

MapInsert == \E id \in PeerIds, addr \in {Addr1}, ttl \in 0..MapMaxTime :
  /\ Len(m_peers) < MaxMapLen
  /\ m_peers' = insert(m_peers, NeighbourEntryNew(id, addr, ttl))
  /\ m_last' = [op |-> "insert", entry |-> NeighbourEntryNew(id, addr, ttl)]
  /\ m_now' = m_now
  /\ UNCHANGED <<codec_vars, rt_vars, ext_vars>>

MapTick == m_now < MapMaxTime /\ m_now' = m_now + 1 /\ m_last' = [op |-> "tick"] /\ m_peers' = m_peers /\ UNCHANGED <<codec_vars, rt_vars, ext_vars>>

MapRemoveExpired ==
  /\ m_peers' = remove_expired(m_peers, m_now)
  /\ m_last' = [op |-> "remove_expired", before |-> m_peers, now |-> m_now]
  /\ m_now' = m_now
  /\ UNCHANGED <<codec_vars, rt_vars, ext_vars>>

\* update_ttl(value) on one entry of the map
MapUpdateTtl == \E i \in 1..Len(m_peers), value \in 1..MapMaxTime :
  /\ m_peers[i].ttl + value <= MapMaxTime
  /\ m_peers' = [m_peers EXCEPT ![i] = update_ttl(@, value)]
  /\ m_last' = [op |-> "update_ttl", index |-> i, now |-> m_now]
  /\ m_now' = m_now
  /\ UNCHANGED <<codec_vars, rt_vars, ext_vars>>

MapNext == MapInsert \/ MapTick \/ MapRemoveExpired \/ MapUpdateTtl

(***************************************************************************)
(* mod.rs: the peer runtime                                                *)
(***************************************************************************)
TTL_RENEWAL == 30
GRACE_MARGIN == 120

\* configuration of the modelled peer
Name == <<65>>
Group == GroupG
BootAddr == [ip |-> <<192, 168, 0, 1>>, port |-> 7000]
None == [kind |-> "None"]
Some(v) == [kind |-> "Some", val |-> v]

\* bounds of the runtime model
MaxTime == 60
MaxTtl == 60
MaxChan == 1
MaxGrace == 1
MaxAlives == 2
TickSteps == {2 * TTL_RENEWAL}

\* HashMap::insert / get_mut followed by an assignment
MapPut(m, k, v) == [x \in DOMAIN m \cup {k} |-> IF x = k THEN v ELSE m[x]]

\* the Alive arm registering a peer id a group does not know
AliveArm_Registers(group_map, peer_id) == [g \in DOMAIN group_map |-> IF contains_peer(group_map[g], peer_id) THEN [group_map[g] EXCEPT ![find_peer_index(group_map[g], peer_id)] = update_ttl(@, TTL_RENEWAL)] ELSE insert(group_map[g], NeighbourEntryNew(peer_id, Addr2, TTL_RENEWAL))]

\* the Alive arm writing the address of the Alive into the entry
AliveArm_Rebinds(group_map, peer_id) == [g \in DOMAIN group_map |-> IF contains_peer(group_map[g], peer_id) THEN [group_map[g] EXCEPT ![find_peer_index(group_map[g], peer_id)] = [update_ttl(@, TTL_RENEWAL) EXCEPT !.addr = Addr2]] ELSE group_map[g]]

\* the Alive arm dropping the entries of peer_id
AliveArm_Drops(group_map, peer_id) == [g \in DOMAIN group_map |-> SelectSeq(group_map[g], LAMBDA e : e.id # peer_id)]

\* Alive arm: update_ttl(TTL_RENEWAL) on the entry of peer_id in every group
AliveArm(group_map, peer_id) == [g \in DOMAIN group_map |-> IF contains_peer(group_map[g], peer_id) THEN [group_map[g] EXCEPT ![find_peer_index(group_map[g], peer_id)] = update_ttl(@, TTL_RENEWAL)] ELSE group_map[g]]

\* the MemberReq arm rebinding a known requester to the datagram's source
\* address and grace expiry
MemberReqInsert_Upsert(group_map, content, socket_addr, t) ==
  LET gm == IF content.group \in DOMAIN group_map THEN group_map ELSE MapPut(group_map, content.group, <<>>)
      peer_list == gm[content.group]
      entry == NeighbourEntryNew(content.peer_id, socket_addr, t + TTL_RENEWAL + GRACE_MARGIN)
  IN IF ~contains_peer(peer_list, content.peer_id)
     THEN MapPut(gm, content.group, insert(peer_list, entry))
     ELSE MapPut(gm, content.group, [peer_list EXCEPT ![find_peer_index(peer_list, content.peer_id)] = entry])

\* the MemberReq arm giving a new entry the renewal TTL only
MemberReqInsert_NoGrace(group_map, content, socket_addr, t) ==
  LET gm == IF content.group \in DOMAIN group_map THEN group_map ELSE MapPut(group_map, content.group, <<>>)
      peer_list == gm[content.group]
  IN IF ~contains_peer(peer_list, content.peer_id)
     THEN MapPut(gm, content.group, insert(peer_list, NeighbourEntryNew(content.peer_id, socket_addr, t + TTL_RENEWAL)))
     ELSE gm

\* MemberReq arm up to the insert: the group is created when missing, the
\* requester is inserted at the datagram's source address when absent
MemberReqInsert(group_map, content, socket_addr, t) ==
  LET gm == IF content.group \in DOMAIN group_map THEN group_map ELSE MapPut(group_map, content.group, <<>>)
      peer_list == gm[content.group]
  IN IF ~contains_peer(peer_list, content.peer_id)
     THEN MapPut(gm, content.group, insert(peer_list, NeighbourEntryNew(content.peer_id, socket_addr, t + TTL_RENEWAL + GRACE_MARGIN)))
     ELSE gm

\* the response list without its filter: the requester is listed too
response_peers_All(peer_list, peer_id) == [i \in 1..Len(peer_list) |-> <<peer_list[i].id, peer_list[i].addr>>]

\* peer_list.iter().filter(|s| *s.id() != peer_id).map(|e| (id, addr)).collect()
response_peers(peer_list, peer_id) ==
  LET kept == SelectSeq(peer_list, LAMBDA e : e.id # peer_id)
  IN [i \in 1..Len(kept) |-> <<kept[i].id, kept[i].addr>>]

\* the bytes of res_msg: MemberResponse::new(..).unwrap() and Message::into;
\* Panic when the unwrap or the encoding panics
MemberReqResponse(group_map, content) ==
  LET res == MemberResponseNew(content.group, response_peers(group_map[content.group], content.peer_id))
  IN IF res.kind # "Ok" THEN Panic
     ELSE LET bytes == MemberResponseInto(res.val)
          IN IF bytes.kind # "Ok" THEN Panic ELSE Ok(MessageInto(HeaderNew(1, "MemberRes", 0), bytes.val))

\* the MemberRes loop without its contains_peer test
RECURSIVE MemberResInsert_NoCheck(_, _, _, _)
MemberResInsert_NoCheck(peer_list, peers, i, t) ==
  IF i > Len(peers) THEN peer_list
  ELSE MemberResInsert_NoCheck(insert(peer_list, NeighbourEntryNew(peers[i][1], peers[i][2], t + TTL_RENEWAL)), peers, i + 1, t)

\* the for loop of the MemberRes arm over peers[i..]
RECURSIVE MemberResInsert(_, _, _, _)
MemberResInsert(peer_list, peers, i, t) ==
  IF i > Len(peers) THEN peer_list
  ELSE IF ~contains_peer(peer_list, peers[i][1])
       THEN MemberResInsert(insert(peer_list, NeighbourEntryNew(peers[i][1], peers[i][2], t + TTL_RENEWAL)), peers, i + 1, t)
       ELSE MemberResInsert(peer_list, peers, i + 1, t)

\* MemberRes arm
MemberResArm(group_map, content, t) ==
  LET gm == IF content.group \in DOMAIN group_map THEN group_map ELSE MapPut(group_map, content.group, <<>>)
  IN MapPut(gm, content.group, MemberResInsert(gm[content.group], content.peers, 1, t))

\* the bytes send_req hands to the transport: Err when MemberRequest::new fails
SendReqBytes ==
  LET req == MemberRequestNew(Name, Group)
  IN IF req.kind # "Ok" THEN FormatError
     ELSE LET bytes == MemberRequestInto(req.val)
          IN IF bytes.kind # "Ok" THEN Panic ELSE Ok(MessageInto(HeaderNew(1, "MemberReq", 64), bytes.val))

\* the Alive datagram of the keep-alive thread
AliveBytes == MessageInto(HeaderNew(1, "Alive", 0), AliveInto(AliveNew(Name)).val)

\* the Chat datagram of the command loop
ChatBytes(line) == MessageInto(HeaderNew(1, "Chat", Len(line)), ChatInto(ChatNew(Name, line)).val)

\* the snapshot naming the groups only
DebugFmt_Groups(group_map) == [g \in DOMAIN group_map |-> <<>>]

\* format!("{:?}", peer_map): every entry prints as id@addr
DebugFmt(group_map) == [g \in DOMAIN group_map |-> [i \in 1..Len(group_map[g]) |-> <<group_map[g][i].id, group_map[g][i].addr>>]]

\* str::trim on ASCII white space
IsSpace(b) == b \in {9, 10, 11, 12, 13, 32}
RECURSIVE TrimStart(_)
TrimStart(str) == IF str # <<>> /\ IsSpace(Head(str)) THEN TrimStart(Tail(str)) ELSE str
RECURSIVE TrimEnd(_)
TrimEnd(str) == IF str # <<>> /\ IsSpace(str[Len(str)]) THEN TrimEnd(SubSeq(str, 1, Len(str) - 1)) ELSE str
Trim(str) == TrimEnd(TrimStart(str))

CmdPeersStr == <<112, 101, 101, 114, 115>>
CmdReqStr == <<114, 101, 113>>
CmdKind(line) == IF Trim(line) = CmdPeersStr THEN "peers" ELSE IF Trim(line) = CmdReqStr THEN "req" ELSE "chat"

(***************************************************************************)
(* Environment: the datagrams the transport may deliver, the command lines *)
(* the front-end may feed                                                  *)
(***************************************************************************)
Frame(T, size, payload) == MessageInto(HeaderNew(1, T, size), payload)
Packet(addr, data) == [socket_addr |-> addr, data |-> data]

ResLists == {<<<<IdC, Addr1>>>>, <<<<IdB, Addr1>>, <<IdC, Addr2>>, <<IdC, Addr1>>>>}

ReqPacket(id, g, a) == Packet(a, Frame("MemberReq", 64, MemberRequestInto(MemberRequestNew(id, g).val).val))
ResPacket(g, l) == Packet(Addr1, Frame("MemberRes", 0, MemberResponseInto(MemberResponseNew(g, l).val).val))

AlivePacket(id) == Packet(Addr2, Frame("Alive", 0, AliveInto(AliveNew(id)).val))
AlivePackets == {AlivePacket(id) : id \in PeerIds}
ReqPackets == {ReqPacket(IdC, GroupG, Addr2), ReqPacket(IdB, GroupH, Addr1)}
ResPackets == {ResPacket(GroupG, l) : l \in ResLists}
ChatPackets == {Packet(Addr1, Frame("Chat", 2, SampleChat))}

\* datagrams that do not decode: shorter than a header, unknown type nibble,
\* truncated payload, non-UTF8 name, truncated Alive payload
ShortPacket == Packet(Addr1, <<MAGIC_HEADER>>)
BadTypePacket == Packet(Addr1, <<MAGIC_HEADER, 19, 0, 0>> \o SampleAlive)
TruncatedReqPacket == Packet(Addr1, Frame("MemberReq", 64, SubSeq(SampleReq, 1, 40)))
NonUtf8ReqPacket == Packet(Addr1, Frame("MemberReq", 64, SetByte(SampleReq, 32, 255)))
TruncatedAlivePacket == Packet(Addr1, Frame("Alive", 0, SubSeq(SampleAlive, 1, 8)))
BadPackets == {ShortPacket, BadTypePacket, TruncatedReqPacket, TruncatedAlivePacket}

\* a well-formed MemberRequest frame whose first byte is not the magic constant
BadMagicPacket == Packet(Addr1, SetByte(ReqPacket(IdB, GroupH, Addr1).data, 0, 0))

Inbound == AlivePackets \cup ReqPackets \cup ResPackets \cup ChatPackets \cup BadPackets \cup {BadMagicPacket}

ChatLine == <<104, 105>>
Commands == {CmdPeersStr, CmdReqStr, ChatLine}

\* the dispatcher's decoding of one datagram, mod.rs 186-206 and the
\* try_from at the head of each arm: a panic ends the thread, Err is the
\* `continue` branch
Dispatch(data) ==
  IF Len(data) < 4 THEN Panic
  ELSE LET header == HeaderTryFrom(SubSeq(data, 1, 4))
       IN IF header.kind = "Panic" THEN Panic
          ELSE LET msg == MessageTryFrom(header.val.msg_type, data)
               IN CASE msg.kind = "Panic" -> Panic
                    [] msg.kind = "Err" -> FormatError
                    [] OTHER -> Ok([type |-> header.val.msg_type, content |-> msg.val.content])

\* the entries of every group, as the nested for loops visit them when the
\* HashMap iterates its groups in the given order
RECURSIVE AllPeers(_, _)
AllPeers(group_map, order) ==
  IF order = <<>> THEN <<>>
  ELSE [i \in 1..Len(group_map[Head(order)]) |-> [group |-> Head(order), id |-> group_map[Head(order)][i].id, addr |-> group_map[Head(order)][i].addr]] \o AllPeers(group_map, Tail(order))

\* the orders in which a HashMap may iterate its keys
Orders(S) == {o \in [1..Cardinality(S) -> S] : \A i, j \in 1..Cardinality(S) : o[i] = o[j] => i = j}

\* the largest expiry an Alive of peer_id would produce
RenewedWithin(group_map, peer_id, bound) == \A g \in DOMAIN group_map : \A i \in 1..Len(group_map[g]) : group_map[g][i].id = peer_id => group_map[g][i].ttl + TTL_RENEWAL <= bound

\* every entry of every group, tagged with its group
Entries(group_map) == UNION {{[group |-> g, id |-> group_map[g][i].id, addr |-> group_map[g][i].addr, ttl |-> group_map[g][i].ttl] : i \in 1..Len(group_map[g])} : g \in DOMAIN group_map}

SendRec(to, data, entry) == [to |-> to, data |-> data, entry |-> entry]

\* no heartbeat round is under way
NoRound == [now |-> 0, entries |-> {}]

harness_vars == <<codec_vars, map_vars, ext_vars>>

\* the runs that are explored: one with the full inbound traffic and a
\* silent front-end, one with every command and little inbound traffic
\* a run also fixes how the clock is sampled (ticks, horizon) and how far
\* Alives may push an expiry (ttl_cap)
Run(boot, inbound, commands, ticks, horizon, ttl_cap) == [bootstrap |-> boot, inbound |-> inbound, commands |-> commands, ticks |-> ticks, horizon |-> horizon, ttl_cap |-> ttl_cap]
TrafficRun == Run(None, Inbound, {}, TickSteps, MaxTime, MaxTtl)
CommandRun == Run(Some(BootAddr), ReqPackets, Commands, TickSteps, MaxTime, MaxTtl)
\* two peers join the same group one after the other
JoinRun == Run(None, {ReqPacket(IdB, GroupG, Addr1), ReqPacket(IdC, GroupG, Addr2)}, {}, TickSteps, MaxTime, MaxTtl)
\* one peer joins and is seen, or not, until its grace expiry has passed:
\* the clock is read GRACE_MARGIN or a little more than TTL_RENEWAL later
GraceHorizon == TTL_RENEWAL + GRACE_MARGIN + MaxGrace
GraceRun == Run(None, {ReqPacket(IdC, GroupG, Addr2), AlivePacket(IdC)}, {}, {GRACE_MARGIN, TTL_RENEWAL + MaxGrace}, GraceHorizon, GraceHorizon + TTL_RENEWAL)
\* no bootstrap address: one peer joins and the front-end asks for "req"
NoBootRun == Run(None, {ReqPacket(IdC, GroupG, Addr2)}, {CmdReqStr}, {}, 0, MaxTtl)
\* one peer joins and chats while the front-end feeds chat lines
ChatRun == Run(None, {ReqPacket(IdC, GroupG, Addr2)} \cup ChatPackets, {ChatLine}, {}, 0, MaxTtl)
\* a peer known in two groups under two addresses, next to another peer, is
\* renewed once
RenewRun == Run(None, {ReqPacket(IdC, GroupG, Addr2), ReqPacket(IdC, GroupH, Addr1), ReqPacket(IdB, GroupG, Addr1), AlivePacket(IdC)}, {}, {}, 0, GRACE_MARGIN + 2 * TTL_RENEWAL)
\* two MemberResponses bring MAX_RES_PEERS + 1 members into one group, then
\* another peer asks to join it
Crowd == [i \in 1..(MAX_RES_PEERS + 1) |-> <<<<IdC[1] + i>>, Addr1>>]
CrowdRun == Run(None, {ResPacket(GroupG, SubSeq(Crowd, 1, 3)), ResPacket(GroupG, SubSeq(Crowd, 4, MAX_RES_PEERS + 1)), ReqPacket(IdC, GroupG, Addr2)}, {}, {}, 0, MaxTtl)
Runs == {TrafficRun, CommandRun, JoinRun, GraceRun, NoBootRun, ChatRun, RenewRun, CrowdRun}

\* nothing has happened yet
NoHistory == [sweep |-> 0, born |-> [k \in {} |-> None]]

\* the (group, id) keys of the entries of a directory
Keys(group_map) == {<<e.group, e.id>> : e \in Entries(group_map)}

\* history after remove_expired ran at time t and left group_map
Swept(h, group_map, t) == [sweep |-> t, born |-> [k \in DOMAIN h.born \cap Keys(group_map) |-> h.born[k]]]

\* history after an arm of the dispatcher turned before into after at time
\* t: an entry that is new was created by this message, an entry of the
\* peer id of an Alive was renewed once more
Handled(h, before, after, msg, t) ==
  [h EXCEPT !.born = [k \in Keys(after) |->
     IF k \notin Keys(before) \/ k \notin DOMAIN h.born THEN [at |-> t, by |-> msg.type, alives |-> 0]
     ELSE IF msg.type = "Alive" /\ k[2] = msg.content.peer_id THEN [h.born[k] EXCEPT !.alives = @ + 1]
     ELSE h.born[k]]]

\* the state after Peer::new, as run() starts
RtStart(r) ==
  /\ peer_map = [g \in {} |-> <<>>]
  /\ lock = "none" /\ poisoned = FALSE /\ now = 0
  /\ bootstrap = r.bootstrap /\ env = [inbound |-> r.inbound, commands |-> r.commands, ticks |-> r.ticks, horizon |-> r.horizon, ttl_cap |-> r.ttl_cap]
  /\ hb_pc = "sleep" /\ hb_groups = {} /\ hb_peers = <<>> /\ hb_start = NoRound
  /\ h_pc = "recv" /\ h_packet = None /\ h_msg = None
  /\ cmd_pc = "boot" /\ cmd_str = <<>> /\ cmd_peers = <<>>
  /\ sent = [hb |-> <<>>, handler |-> <<>>, cmd |-> <<>>]
  /\ send_err = [hb |-> FALSE, handler |-> FALSE, cmd |-> FALSE]
  /\ msg_chan = <<>> /\ exited = FALSE /\ rx_open = TRUE
  /\ history = NoHistory

RtInit == \E r \in Runs : RtStart(r)

hb_vars == <<hb_pc, hb_groups, hb_peers, hb_start>>
cmd_vars == <<cmd_pc, cmd_str, cmd_peers>>

\* ---- the clock
Tick ==
  /\ ~exited
  /\ \E d \in env.ticks : now + d <= env.horizon /\ now' = now + d
  /\ UNCHANGED <<peer_map, lock, poisoned, bootstrap, env, hb_vars, h_pc, h_packet, h_msg, cmd_vars, sent, send_err, msg_chan, exited, history, rx_open, harness_vars>>

\* ---- run_keep_alive_thread
\* std::thread::sleep(5 s) returns. The clock of the model is coarser than
\* the sleep, so the sleep may end at any reading of it.
HbWake ==
  /\ ~exited /\ hb_pc = "sleep"
  /\ hb_pc' = "lock"
  /\ UNCHANGED <<peer_map, lock, poisoned, now, bootstrap, env, hb_groups, hb_peers, hb_start, h_pc, h_packet, h_msg, cmd_vars, sent, send_err, msg_chan, exited, history, rx_open, harness_vars>>

\* peer_map_lock.lock().ignore_poison()
HbLock ==
  /\ ~exited /\ hb_pc = "lock" /\ lock = "none"
  /\ lock' = "hb" /\ hb_pc' = "iter"
  /\ hb_groups' = DOMAIN peer_map /\ hb_peers' = <<>>
  /\ hb_start' = [now |-> now, entries |-> Entries(peer_map)]
  /\ UNCHANGED <<peer_map, poisoned, now, bootstrap, env, h_pc, h_packet, h_msg, cmd_vars, sent, send_err, msg_chan, exited, history, rx_open, harness_vars>>

\* the next group of peer_map.iter_mut(): remove_expired, then its peers
HbGroup ==
  /\ ~exited /\ hb_pc = "iter" /\ hb_peers = <<>>
  /\ \E g \in hb_groups :
       /\ peer_map' = [peer_map EXCEPT ![g] = remove_expired(@, now)]
       /\ hb_peers' = AllPeers(peer_map', <<g>>)
       /\ hb_groups' = hb_groups \ {g}
  /\ history' = Swept(history, peer_map', now)
  /\ UNCHANGED <<lock, poisoned, now, bootstrap, env, hb_pc, hb_start, h_pc, h_packet, h_msg, cmd_vars, sent, send_err, msg_chan, exited, rx_open, harness_vars>>

\* alive_sock.send(..) to the next peer of the group; the result is dropped
HbSend ==
  /\ ~exited /\ hb_pc = "iter" /\ hb_peers # <<>>
  /\ \E ok \in BOOLEAN :
       /\ sent' = [sent EXCEPT !.hb = Append(@, SendRec(Head(hb_peers).addr, AliveBytes, Head(hb_peers)))]
       /\ send_err' = [send_err EXCEPT !.hb = ~ok]
  /\ hb_peers' = Tail(hb_peers)
  /\ UNCHANGED <<peer_map, lock, poisoned, now, bootstrap, env, hb_pc, hb_groups, hb_start, h_pc, h_packet, h_msg, cmd_vars, msg_chan, exited, history, rx_open, harness_vars>>

\* end of the loop body: the guard is dropped, the thread sleeps again
HbUnlock ==
  /\ ~exited /\ hb_pc = "iter" /\ hb_peers = <<>> /\ hb_groups = {}
  /\ lock' = "none" /\ hb_pc' = "sleep"
  /\ hb_start' = NoRound
  /\ sent' = [sent EXCEPT !.hb = <<>>] /\ send_err' = [send_err EXCEPT !.hb = FALSE]
  /\ UNCHANGED <<peer_map, poisoned, now, bootstrap, env, hb_groups, hb_peers, h_pc, h_packet, h_msg, cmd_vars, msg_chan, exited, history, rx_open, harness_vars>>

\* ---- run_message_handler_thread
\* recv_sock.recv() returns a datagram; header and payload are decoded.
\* A panic ends the thread, a decode error continues with the next recv, a
\* Chat is forwarded with msg_sender.send(..).unwrap() (that arm takes no
\* lock; the send returns Err, and the unwrap panics, when no Receiver is
\* left), the other arms go on to take the lock.
HRecv ==
  /\ ~exited /\ h_pc = "recv"
  /\ \E pkt \in env.inbound :
       LET d == Dispatch(pkt.data)
       IN /\ d.kind = "Ok" /\ d.val.type = "Chat" => Len(msg_chan) < MaxChan
          /\ d.kind = "Ok" /\ d.val.type = "Alive" => RenewedWithin(peer_map, d.val.content.peer_id, env.ttl_cap)
          /\ CASE d.kind = "Panic" -> h_pc' = "panicked" /\ h_packet' = pkt /\ h_msg' = None /\ UNCHANGED msg_chan
               [] d.kind = "Err" -> h_pc' = "recv" /\ h_packet' = None /\ h_msg' = None /\ UNCHANGED msg_chan
               [] d.kind = "Ok" /\ d.val.type = "Chat" /\ rx_open -> h_pc' = "recv" /\ h_packet' = None /\ h_msg' = None /\ msg_chan' = Append(msg_chan, <<d.val.content.peer_id, d.val.content.msg>>)
               [] d.kind = "Ok" /\ d.val.type = "Chat" /\ ~rx_open -> h_pc' = "panicked" /\ h_packet' = pkt /\ h_msg' = d.val /\ UNCHANGED msg_chan
               [] OTHER -> h_pc' = "lock" /\ h_packet' = pkt /\ h_msg' = d.val /\ UNCHANGED msg_chan
  /\ UNCHANGED <<peer_map, lock, poisoned, now, bootstrap, env, hb_vars, cmd_vars, sent, send_err, exited, history, rx_open, harness_vars>>

\* recv_sock.recv() returns Err: continue
HRecvError ==
  /\ ~exited /\ h_pc = "recv"
  /\ UNCHANGED <<peer_map, lock, poisoned, now, bootstrap, env, hb_vars, h_pc, h_packet, h_msg, cmd_vars, sent, send_err, msg_chan, exited, history, rx_open, harness_vars>>

\* peer_map_lock.lock().ignore_poison() at the head of an arm
HLock ==
  /\ ~exited /\ h_pc = "lock" /\ lock = "none"
  /\ lock' = "handler" /\ h_pc' = "handle"
  /\ UNCHANGED <<peer_map, poisoned, now, bootstrap, env, hb_vars, h_packet, h_msg, cmd_vars, sent, send_err, msg_chan, exited, history, rx_open, harness_vars>>

\* the body of the Alive, MemberReq or MemberRes arm under the lock. The
\* MemberReq arm goes on to send the response, or panics in
\* MemberResponse::new(..).unwrap(), which drops the guard while unwinding.
HHandle ==
  /\ ~exited /\ h_pc = "handle"
  /\ LET d == h_msg
     IN CASE d.type = "Alive" ->
               /\ peer_map' = AliveArm(peer_map, d.content.peer_id)
               /\ h_pc' = "unlock" /\ UNCHANGED <<lock, poisoned>>
          [] d.type = "MemberRes" ->
               /\ peer_map' = MemberResArm(peer_map, d.content, now)
               /\ h_pc' = "unlock" /\ UNCHANGED <<lock, poisoned>>
          [] d.type = "MemberReq" ->
               /\ peer_map' = MemberReqInsert(peer_map, d.content, h_packet.socket_addr, now)
               /\ IF MemberReqResponse(peer_map', d.content).kind = "Panic"
                  THEN lock' = "none" /\ poisoned' = TRUE /\ h_pc' = "panicked"
                  ELSE h_pc' = "send_res" /\ UNCHANGED <<lock, poisoned>>
  /\ history' = Handled(history, peer_map, peer_map', h_msg, now)
  /\ UNCHANGED <<now, bootstrap, env, hb_vars, h_packet, h_msg, cmd_vars, sent, send_err, msg_chan, exited, rx_open, harness_vars>>

\* recv_sock.send(response).unwrap() with the guard alive; a send error
\* panics and unwinding drops the guard
HSendRes ==
  /\ ~exited /\ h_pc = "send_res"
  /\ \E ok \in BOOLEAN :
       /\ sent' = [sent EXCEPT !.handler = Append(@, SendRec(h_packet.socket_addr, MemberReqResponse(peer_map, h_msg.content).val, <<>>))]
       /\ send_err' = [send_err EXCEPT !.handler = ~ok]
       /\ IF ok THEN h_pc' = "unlock" /\ UNCHANGED <<lock, poisoned>>
                ELSE h_pc' = "panicked" /\ lock' = "none" /\ poisoned' = TRUE
  /\ UNCHANGED <<peer_map, now, bootstrap, env, hb_vars, h_packet, h_msg, cmd_vars, msg_chan, exited, history, rx_open, harness_vars>>

\* the arm ending with its guard leaked
HUnlock_KeepsGuard ==
  /\ ~exited /\ h_pc = "unlock"
  /\ h_pc' = "recv" /\ h_packet' = None /\ h_msg' = None
  /\ sent' = [sent EXCEPT !.handler = <<>>] /\ send_err' = [send_err EXCEPT !.handler = FALSE]
  /\ UNCHANGED <<peer_map, lock, poisoned, now, bootstrap, env, hb_vars, cmd_vars, msg_chan, exited, history, rx_open, harness_vars>>

\* the arm ends: the guard and the packet are dropped, back to recv
HUnlock ==
  /\ ~exited /\ h_pc = "unlock"
  /\ lock' = "none" /\ h_pc' = "recv" /\ h_packet' = None /\ h_msg' = None
  /\ sent' = [sent EXCEPT !.handler = <<>>] /\ send_err' = [send_err EXCEPT !.handler = FALSE]
  /\ UNCHANGED <<peer_map, poisoned, now, bootstrap, env, hb_vars, cmd_vars, msg_chan, exited, history, rx_open, harness_vars>>

\* ---- run: the main thread
\* send_req handing its datagram to the transport twice
SendReqTo_Twice(addr, entry) == IF SendReqBytes.kind = "Ok" THEN <<SendRec(addr, SendReqBytes.val, entry), SendRec(addr, SendReqBytes.val, entry)>> ELSE <<>>

\* the datagram send_req(peer_socket) hands to the transport, if any
SendReqTo(addr, entry) == IF SendReqBytes.kind = "Ok" THEN <<SendRec(addr, SendReqBytes.val, entry)>> ELSE <<>>

\* if let Some(bootstrap) = self.bootstrap { self.send_req(bootstrap); }
CmdBoot ==
  /\ ~exited /\ cmd_pc = "boot"
  /\ IF bootstrap.kind = "None" THEN UNCHANGED <<sent, send_err>>
     ELSE \E ok \in BOOLEAN :
            /\ sent' = [sent EXCEPT !.cmd = @ \o SendReqTo(bootstrap.val, <<>>)]
            /\ send_err' = [send_err EXCEPT !.cmd = ~ok]
  /\ cmd_pc' = IF bootstrap.kind = "None" THEN "wait" ELSE "done"
  /\ UNCHANGED <<peer_map, lock, poisoned, now, bootstrap, env, hb_vars, h_pc, h_packet, h_msg, cmd_str, cmd_peers, msg_chan, exited, history, rx_open, harness_vars>>

\* self.rx.recv() returns a line
CmdRecv ==
  /\ ~exited /\ cmd_pc = "wait"
  /\ \E line \in env.commands :
       /\ CmdKind(line) = "peers" => Len(msg_chan) < MaxChan
       /\ cmd_str' = line
  /\ cmd_pc' = "lock"
  /\ UNCHANGED <<peer_map, lock, poisoned, now, bootstrap, env, hb_vars, h_pc, h_packet, h_msg, cmd_peers, sent, send_err, msg_chan, exited, history, rx_open, harness_vars>>

\* self.peer_map.lock().ignore_poison(): of the "peers" statement, or at
\* the head of the for loop of "req" or of the chat broadcast
CmdLock ==
  /\ ~exited /\ cmd_pc = "lock" /\ lock = "none"
  /\ lock' = "cmd" /\ cmd_pc' = CmdKind(cmd_str)
  /\ IF CmdKind(cmd_str) = "peers" THEN cmd_peers' = <<>>
     ELSE \E order \in Orders(DOMAIN peer_map) : cmd_peers' = AllPeers(peer_map, order)
  /\ UNCHANGED <<peer_map, poisoned, now, bootstrap, env, hb_vars, h_pc, h_packet, h_msg, cmd_str, sent, send_err, msg_chan, exited, history, rx_open, harness_vars>>

\* "peers": the snapshot is formatted and sent on msg_tx, the statement
\* ends and drops the guard; continue
CmdPeers ==
  /\ ~exited /\ cmd_pc = "peers"
  /\ msg_chan' = Append(msg_chan, <<Name, DebugFmt(peer_map)>>)
  /\ lock' = "none" /\ cmd_pc' = "wait" /\ cmd_str' = <<>>
  /\ UNCHANGED <<peer_map, poisoned, now, bootstrap, env, hb_vars, h_pc, h_packet, h_msg, cmd_peers, sent, send_err, exited, history, rx_open, harness_vars>>

\* one iteration of the inner for loop: "req" calls send_req and drops its
\* result, the chat broadcast unwraps the result of cmd_sock.send. The
\* unwrap of an Err panics the thread that called run(): unwinding drops
\* the guard; when that thread is the main thread the process ends, and
\* with it every thread, otherwise the two spawned threads run on.
CmdSend ==
  /\ ~exited /\ cmd_pc \in {"req", "chat"} /\ cmd_peers # <<>>
  /\ \E ok \in BOOLEAN :
       /\ sent' = [sent EXCEPT !.cmd = @ \o (IF cmd_pc = "req" THEN SendReqTo(Head(cmd_peers).addr, Head(cmd_peers)) ELSE <<SendRec(Head(cmd_peers).addr, ChatBytes(cmd_str), Head(cmd_peers))>>)]
       /\ send_err' = [send_err EXCEPT !.cmd = ~ok]
       /\ IF cmd_pc = "chat" /\ ~ok
          THEN lock' = "none" /\ poisoned' = TRUE /\ cmd_pc' = "panicked" /\ exited' \in BOOLEAN /\ UNCHANGED cmd_peers
          ELSE cmd_peers' = Tail(cmd_peers) /\ UNCHANGED <<lock, poisoned, cmd_pc, exited>>
  /\ UNCHANGED <<peer_map, now, bootstrap, env, hb_vars, h_pc, h_packet, h_msg, cmd_str, msg_chan, history, rx_open, harness_vars>>

\* the for loop ends and drops the guard
CmdUnlock ==
  /\ ~exited /\ cmd_pc \in {"req", "chat"} /\ cmd_peers = <<>>
  /\ lock' = "none"
  /\ cmd_pc' = IF cmd_pc = "req" THEN "req_boot" ELSE "done"
  /\ UNCHANGED <<peer_map, poisoned, now, bootstrap, env, hb_vars, h_pc, h_packet, h_msg, cmd_str, cmd_peers, sent, send_err, msg_chan, exited, history, rx_open, harness_vars>>

\* "req" ending without the request to the bootstrap address
CmdReqBoot_Skip ==
  /\ ~exited /\ cmd_pc = "req_boot"
  /\ cmd_pc' = "done"
  /\ UNCHANGED <<peer_map, lock, poisoned, now, bootstrap, env, hb_vars, h_pc, h_packet, h_msg, cmd_str, cmd_peers, sent, send_err, msg_chan, exited, history, rx_open, harness_vars>>

\* "req": send_req(bootstrap) after the loop
CmdReqBoot ==
  /\ ~exited /\ cmd_pc = "req_boot"
  /\ IF bootstrap.kind = "None" THEN UNCHANGED <<sent, send_err>>
     ELSE \E ok \in BOOLEAN :
            /\ sent' = [sent EXCEPT !.cmd = @ \o SendReqTo(bootstrap.val, <<>>)]
            /\ send_err' = [send_err EXCEPT !.cmd = ~ok]
  /\ cmd_pc' = "done"
  /\ UNCHANGED <<peer_map, lock, poisoned, now, bootstrap, env, hb_vars, h_pc, h_packet, h_msg, cmd_str, cmd_peers, msg_chan, exited, history, rx_open, harness_vars>>

\* the bootstrap request or the command is finished: on to self.rx.recv()
CmdDone ==
  /\ ~exited /\ cmd_pc = "done"
  /\ cmd_pc' = "wait" /\ cmd_str' = <<>>
  /\ sent' = [sent EXCEPT !.cmd = <<>>] /\ send_err' = [send_err EXCEPT !.cmd = FALSE]
  /\ UNCHANGED <<peer_map, lock, poisoned, now, bootstrap, env, hb_vars, h_pc, h_packet, h_msg, cmd_peers, msg_chan, exited, history, rx_open, harness_vars>>

\* run() has unwound in a thread that is not the main thread: its caller's
\* frame drops the Peer and with it msg_rx, and the front-end holds no
\* clone of it any more
PeerDropped ==
  /\ ~exited /\ cmd_pc = "panicked" /\ rx_open
  /\ rx_open' = FALSE
  /\ UNCHANGED <<peer_map, lock, poisoned, now, bootstrap, env, hb_vars, h_pc, h_packet, h_msg, cmd_vars, sent, send_err, msg_chan, exited, history, harness_vars>>

\* the front-end takes a notification from msg_receiver()
UiRecv ==
  /\ ~exited /\ rx_open /\ msg_chan # <<>>
  /\ msg_chan' = Tail(msg_chan)
  /\ UNCHANGED <<peer_map, lock, poisoned, now, bootstrap, env, hb_vars, h_pc, h_packet, h_msg, cmd_vars, sent, send_err, exited, history, rx_open, harness_vars>>

(***************************************************************************)
(* Router (routing/router.rs): senders on clones of Router::tx, one thread *)
(* calling recv / recv_timeout                                             *)
(***************************************************************************)
\* bound of the Router harness: the number of sender threads
MaxSenders == 4

\* Message::<Empty>::new(header, Empty::new())
EmptyMessage(header) == [header |-> header, content |-> "Empty"]

\* the messages of tests::router
MSGS == <<EmptyMessage(HeaderNew(1, "Alive", 5)), EmptyMessage(HeaderNew(1, "MemberReq", 15)), EmptyMessage(HeaderNew(1, "MemberRes", 77)), EmptyMessage(HeaderNew(1, "Chat", 343)), EmptyMessage(HeaderNew(1, "Alive", 5))>>

\* the message sender i sends
MsgOf(i) == MSGS[((i - 1) % Len(MSGS)) + 1]

\* DummyHandler::process: a message of the same type whose size is 1..4
process(msg) ==
  LET size == CASE msg.header.msg_type = "Alive" -> 1
                [] msg.header.msg_type = "MemberReq" -> 2
                [] msg.header.msg_type = "MemberRes" -> 3
                [] msg.header.msg_type = "Chat" -> 4
  IN EmptyMessage(HeaderNew(1, msg.header.msg_type, size))

\* a send that enqueues its message twice
ChannelSend_Twice(chan, m) == Append(Append(chan, m), m)

\* Sender::send on the mpsc channel: the message joins the queue
ChannelSend(chan, m) == Append(chan, m)

\* RecvTimeoutError::Timeout
TimeoutError == [kind |-> "Err", err |-> "Timeout"]

\* Router::new and the senders' clones of tx()
RouterInit ==
  /\ r_chan = <<>> /\ r_senders = [i \in 1..MaxSenders |-> "ready"]
  /\ r_pc = "idle" /\ r_ret = None /\ r_log = <<>>

\* sender.send(msg).unwrap() in a sender thread: the Router owns rx_in, so
\* the send succeeds
RouterSend == \E i \in 1..MaxSenders :
  /\ r_senders[i] = "ready"
  /\ r_chan' = ChannelSend(r_chan, [from |-> i, msg |-> MsgOf(i)])
  /\ r_senders' = [r_senders EXCEPT ![i] = "sent"]
  /\ UNCHANGED <<r_pc, r_ret, r_log, codec_vars, map_vars, rt_vars, net_vars>>

\* the receiving thread calls recv or recv_timeout
RouterCall == \E m \in {"recv", "recv_timeout"} :
  /\ r_pc = "idle" /\ r_pc' = m
  /\ UNCHANGED <<r_chan, r_senders, r_ret, r_log, codec_vars, map_vars, rt_vars, net_vars>>

\* rx_in.recv() yields the oldest message: Ok(handler.process(&msg)). The
\* Router owns tx_in, so the channel never disconnects and recv waits
RouterRecv ==
  /\ r_pc = "recv" /\ r_chan # <<>>
  /\ r_ret' = Ok(process(Head(r_chan).msg))
  /\ r_log' = Append(r_log, [from |-> Head(r_chan).from, result |-> process(Head(r_chan).msg)])
  /\ r_chan' = Tail(r_chan) /\ r_pc' = "idle"
  /\ UNCHANGED <<r_senders, codec_vars, map_vars, rt_vars, net_vars>>

\* rx_in.recv_timeout(duration) yields the oldest message within the timeout
RouterRecvTimeout ==
  /\ r_pc = "recv_timeout" /\ r_chan # <<>>
  /\ r_ret' = Ok(process(Head(r_chan).msg))
  /\ r_log' = Append(r_log, [from |-> Head(r_chan).from, result |-> process(Head(r_chan).msg)])
  /\ r_chan' = Tail(r_chan) /\ r_pc' = "idle"
  /\ UNCHANGED <<r_senders, codec_vars, map_vars, rt_vars, net_vars>>

\* the timeout passes with the channel empty: Err(Timeout)
RouterTimeout ==
  /\ r_pc = "recv_timeout" /\ r_chan = <<>>
  /\ r_ret' = TimeoutError /\ r_pc' = "idle"
  /\ UNCHANGED <<r_chan, r_senders, r_log, codec_vars, map_vars, rt_vars, net_vars>>

RouterNext == RouterSend \/ RouterCall \/ RouterRecv \/ RouterRecvTimeout \/ RouterTimeout

RouterIdle == r_chan = <<>> /\ r_senders = << >> /\ r_pc = "off" /\ r_ret = None /\ r_log = <<>>
(***************************************************************************)
(* Several peers: each node runs the three activities of mod.rs, a         *)
(* datagram sent by one is delivered to the node bound to its destination  *)
(***************************************************************************)
\* bounds of the network runs: clock readings past 0, "req" commands fed
NetTicks == 3
MaxReqs == 1
NetStep == 3 * TTL_RENEWAL
\* how far beyond the clock the Alives that are let through push an expiry
NetLead == 2 * TTL_RENEWAL

Node(id, addr, group, boot) == [id |-> id, addr |-> addr, group |-> group, bootstrap |-> boot]
NodeA == Node(Name, BootAddr, GroupG, None)
NodeB == Node(IdB, Addr1, GroupG, Some(BootAddr))
NodeC == Node(IdC, Addr2, GroupG, Some(Addr1))

\* B bootstraps through A; delivery is reliable and no command is fed
PairRun == [nodes |-> {NodeA, NodeB}, horizon |-> NetTicks * NetStep, reqs |-> 0, trace |-> TRUE]
\* C bootstraps through B, which bootstraps through A, and "req" commands
\* are fed
TrioRun == [nodes |-> {NodeA, NodeB, NodeC}, horizon |-> NetStep, reqs |-> MaxReqs, trace |-> FALSE]

Datagram(from, to, data) == [from |-> from, to |-> to, data |-> data]

\* send_req(addr) of a node: the datagram handed to the transport
NetSendReq(node, addr) == Datagram(node.addr, addr, ReqPacket(node.id, node.group, node.addr).data)

\* the Alive datagrams of one keep-alive round over the swept directory
NetAlives(node, group_map) == {Datagram(node.addr, e.addr, AlivePacket(node.id).data) : e \in Entries(group_map)}

\* remove_expired on every group of the directory
SweepAll(group_map, t) == [g \in DOMAIN group_map |-> remove_expired(group_map[g], t)]

NetStart(run) ==
  /\ n_run = run /\ n_dir = [n \in run.nodes |-> [g \in {} |-> <<>>]]
  /\ n_net = {} /\ n_now = 0 /\ n_up = {} /\ n_cmds = 0
  /\ n_hist = [sent |-> {}, swept |-> [n \in run.nodes |-> 0]]

\* the datagrams join the network and, in a traced run, the record of what
\* was sent
NetEmit(out) == n_net' = n_net \cup out /\ n_hist' = [n_hist EXCEPT !.sent = IF n_run.trace THEN @ \cup out ELSE @]
NetEmitFrom(net, out) == n_net' = net \cup out /\ n_hist' = [n_hist EXCEPT !.sent = IF n_run.trace THEN @ \cup out ELSE @]

\* run() of a node: the threads start, then the bootstrap request is sent
NetBoot == \E n \in n_run.nodes \ n_up :
  /\ n_up' = n_up \cup {n}
  /\ NetEmit(IF n.bootstrap.kind = "Some" THEN {NetSendReq(n, n.bootstrap.val)} ELSE {})
  /\ UNCHANGED <<n_run, n_dir, n_now, n_cmds, codec_vars, map_vars, rt_vars, router_vars>>

\* the dispatcher of the node bound to the destination handles a datagram:
\* one arm of the match, with its response when it is a MemberRequest
NetDeliver == \E d \in n_net : \E n \in n_up :
  /\ n.addr = d.to
  /\ LET m == Dispatch(d.data)
     IN /\ m.kind = "Ok" /\ m.val.type = "Alive" => RenewedWithin(n_dir[n], m.val.content.peer_id, n_now + NetLead)
        /\ CASE m.kind = "Ok" /\ m.val.type = "Alive" ->
                  /\ n_dir' = [n_dir EXCEPT ![n] = AliveArm(@, m.val.content.peer_id)]
                  /\ NetEmitFrom(n_net \ {d}, {})
             [] m.kind = "Ok" /\ m.val.type = "MemberReq" ->
                  /\ n_dir' = [n_dir EXCEPT ![n] = MemberReqInsert(@, m.val.content, d.from, n_now)]
                  /\ LET res == MemberReqResponse(n_dir'[n], m.val.content)
                     IN NetEmitFrom(n_net \ {d}, IF res.kind = "Ok" THEN {Datagram(n.addr, d.from, res.val)} ELSE {})
             [] m.kind = "Ok" /\ m.val.type = "MemberRes" ->
                  /\ n_dir' = [n_dir EXCEPT ![n] = MemberResArm(@, m.val.content, n_now)]
                  /\ NetEmitFrom(n_net \ {d}, {})
             [] OTHER -> n_dir' = n_dir /\ NetEmitFrom(n_net \ {d}, {})
  /\ UNCHANGED <<n_run, n_now, n_up, n_cmds, codec_vars, map_vars, rt_vars, router_vars>>

\* one round of the keep-alive thread of a node: every group is swept and
\* an Alive goes to every entry that is left
NetSweep == \E n \in n_up :
  /\ n_dir' = [n_dir EXCEPT ![n] = SweepAll(@, n_now)]
  /\ n_net' = n_net \cup NetAlives(n, n_dir'[n])
  /\ n_hist' = IF n_run.trace THEN [sent |-> n_hist.sent \cup NetAlives(n, n_dir'[n]), swept |-> [n_hist.swept EXCEPT ![n] = n_now]] ELSE n_hist
  /\ UNCHANGED <<n_run, n_now, n_up, n_cmds, codec_vars, map_vars, rt_vars, router_vars>>

\* "req" fed to a node: send_req to every entry of every group, then to the
\* bootstrap address
NetReq == \E n \in n_up :
  /\ n_cmds < n_run.reqs /\ n_cmds' = n_cmds + 1
  /\ NetEmit({NetSendReq(n, e.addr) : e \in Entries(n_dir[n])} \cup (IF n.bootstrap.kind = "Some" THEN {NetSendReq(n, n.bootstrap.val)} ELSE {}))
  /\ UNCHANGED <<n_run, n_dir, n_now, n_up, codec_vars, map_vars, rt_vars, router_vars>>

NetTick ==
  /\ n_now + NetStep <= n_run.horizon /\ n_now' = n_now + NetStep
  /\ UNCHANGED <<n_run, n_dir, n_net, n_up, n_cmds, n_hist, codec_vars, map_vars, rt_vars, router_vars>>

NetIdle == NetStart([nodes |-> {}, horizon |-> 0, reqs |-> 0, trace |-> FALSE])
ExtIdle == RouterIdle /\ NetIdle

CodecIdle == c_op = "idle" /\ c_in = <<>> /\ c_out = Pending
MapIdle == m_peers = <<>> /\ m_now = 0 /\ m_last = [op |-> "idle"]
IdleRun == Run(None, {}, {}, {}, 0, 0)
RtIdle == RtStart(IdleRun)

Init == RtInit /\ CodecIdle /\ MapIdle /\ ExtIdle

Next ==
  \/ Tick
  \/ HbWake \/ HbLock \/ HbGroup \/ HbSend \/ HbUnlock
  \/ HRecv \/ HRecvError \/ HLock \/ HHandle \/ HSendRes \/ HUnlock
  \/ CmdBoot \/ CmdRecv \/ CmdLock \/ CmdPeers \/ CmdSend \/ CmdUnlock \/ CmdReqBoot \/ CmdDone
  \/ PeerDropped \/ UiRecv

Spec == Init /\ [][Next]_vars

CodecStart == CodecInit /\ MapIdle /\ RtIdle /\ ExtIdle

CodecSpec == CodecStart /\ [][CodecNext]_vars

MapStart == MapInit /\ CodecIdle /\ RtIdle /\ ExtIdle

RouterStart == RouterInit /\ CodecIdle /\ MapIdle /\ RtIdle /\ NetIdle

PairInit == NetStart(PairRun) /\ CodecIdle /\ MapIdle /\ RtIdle /\ RouterIdle

PairNext == NetBoot \/ NetDeliver \/ NetSweep \/ NetTick

PairSpec == PairInit /\ [][PairNext]_vars

TrioInit == NetStart(TrioRun) /\ CodecIdle /\ MapIdle /\ RtIdle /\ RouterIdle

TrioNext == NetBoot \/ NetDeliver \/ NetSweep \/ NetReq \/ NetTick

TrioSpec == TrioInit /\ [][TrioNext]_vars

RouterSpec == RouterStart /\ [][RouterNext]_vars

MapSpec == MapStart /\ [][MapNext]_vars

(***************************************************************************)
(* Fair runs: one small run of the three activities. A step inside a       *)
(* critical section is taken once it stays enabled (the thread is          *)
(* scheduled); an acquisition is taken when the mutex is free again and    *)
(* again (the fair scheduling of the waiting threads).                     *)
(***************************************************************************)
FairRun == Run(Some(BootAddr), {ReqPacket(IdC, GroupG, Addr2)}, Commands, TickSteps, MaxTime, MaxTtl)

FairInit == RtStart(FairRun) /\ CodecIdle /\ MapIdle /\ ExtIdle

Fairness ==
  /\ SF_vars(HbLock) /\ SF_vars(HLock) /\ SF_vars(CmdLock)
  /\ WF_vars(HbGroup) /\ WF_vars(HbSend) /\ WF_vars(HbUnlock)
  /\ WF_vars(HHandle) /\ WF_vars(HSendRes) /\ WF_vars(HUnlock)
  /\ WF_vars(CmdPeers) /\ WF_vars(CmdSend) /\ WF_vars(CmdUnlock)

FairSpec == FairInit /\ [][Next]_vars /\ Fairness

(***************************************************************************)
(* Sweep runs: a peer joins and sends Alives while the front-end is       *)
(* silent. The clock advances in steps of three renewal periods up to a   *)
(* horizon that lies beyond every expiry MaxAlives renewals can produce;  *)
(* the clock keeps advancing, the keep-alive thread keeps waking up and   *)
(* the threads are scheduled fairly.                                      *)
(***************************************************************************)
SweepTick == 3 * TTL_RENEWAL
SweepCap == TTL_RENEWAL + GRACE_MARGIN + MaxAlives * TTL_RENEWAL
SweepHorizon == ((SweepCap \div SweepTick) + 1) * SweepTick
SweepRun == Run(None, {ReqPacket(IdC, GroupG, Addr2), AlivePacket(IdC)}, {}, {SweepTick}, SweepHorizon, SweepCap)

SweepInit == RtStart(SweepRun) /\ CodecIdle /\ MapIdle /\ ExtIdle

SweepNext ==
  \/ Tick
  \/ HbWake \/ HbLock \/ HbGroup \/ HbSend \/ HbUnlock
  \/ HRecv \/ HRecvError \/ HLock \/ HHandle \/ HSendRes \/ HUnlock
  \/ CmdBoot

SweepSpec == SweepInit /\ [][SweepNext]_vars /\ Fairness /\ WF_vars(Tick) /\ WF_vars(HbWake)

(***************************************************************************)
(* Properties                                                              *)
(***************************************************************************)
\* the activities and their positions with respect to the mutex
Activities == {"hb", "handler", "cmd"}
Waiting(a) == CASE a = "hb" -> hb_pc = "lock" [] a = "handler" -> h_pc = "lock" [] a = "cmd" -> cmd_pc = "lock"
Holding(a) == lock = a

\* the datagram the dispatcher is handling, decoded
HandledMsg == h_msg
\* the step of the dispatcher that runs the body of an arm
HandleStep == h_pc = "handle" /\ h_pc' # "handle"
HasEntry(group_map, g, id) == g \in DOMAIN group_map /\ contains_peer(group_map[g], id)

\* C1: in every reachable state each group of the directory holds at most
\* one entry per peer id, whatever MemberRequest, MemberResponse and Alive
\* datagrams were handled and in whatever order
C1_UniquePerGroup ==
  \A g \in DOMAIN peer_map : \A i, j \in 1..Len(peer_map[g]) : peer_map[g][i].id = peer_map[g][j].id => i = j

\* a MemberResponse that lists IdC twice has been handled while IdC was
\* already registered by a MemberRequest (its expiry is a grace expiry)
C1_Witness ==
  /\ h_pc = "unlock" /\ HandledMsg.type = "MemberRes"
  /\ \E i, j \in 1..Len(HandledMsg.content.peers) : i # j /\ HandledMsg.content.peers[i][1] = IdC /\ HandledMsg.content.peers[j][1] = IdC
  /\ \E i \in 1..Len(peer_map[GroupG]) : peer_map[GroupG][i].id = IdC /\ peer_map[GroupG][i].ttl >= TTL_RENEWAL + GRACE_MARGIN

\* C2: insertion is first-writer-wins. Handling a MemberRequest or a
\* MemberResponse leaves every entry that exists (its place, id, address
\* and expiry) as it is, and of several listings of a new id in one
\* MemberResponse the first one gives the address.
C2_FirstWriterWins ==
  [][(HandleStep /\ HandledMsg.type \in {"MemberReq", "MemberRes"}) =>
       /\ \A g \in DOMAIN peer_map : \A i \in 1..Len(peer_map[g]) :
            g \in DOMAIN peer_map' /\ i <= Len(peer_map'[g]) /\ peer_map'[g][i] = peer_map[g][i]
       /\ HandledMsg.type = "MemberRes" =>
            \A k \in 1..Len(HandledMsg.content.peers) :
              (/\ ~HasEntry(peer_map, HandledMsg.content.group, HandledMsg.content.peers[k][1])
               /\ \A j \in 1..(k - 1) : HandledMsg.content.peers[j][1] # HandledMsg.content.peers[k][1])
              => \E i \in 1..Len(peer_map'[HandledMsg.content.group]) :
                   /\ peer_map'[HandledMsg.content.group][i].id = HandledMsg.content.peers[k][1]
                   /\ peer_map'[HandledMsg.content.group][i].addr = HandledMsg.content.peers[k][2]
  ]_vars

\* a datagram naming IdC at another address than the stored one has been
\* handled: a MemberRequest from another source, or a MemberResponse
\* listing another address
C2_Witness ==
  /\ h_pc = "unlock" /\ HandledMsg.type = "MemberReq" /\ HandledMsg.content.peer_id = IdC
  /\ HandledMsg.content.group = GroupG /\ GroupG \in DOMAIN peer_map
  /\ \E i \in 1..Len(peer_map[GroupG]) : peer_map[GroupG][i].id = IdC /\ peer_map[GroupG][i].addr # h_packet.socket_addr

\* C3: an Alive whose peer id has no entry in any group leaves the
\* directory unchanged, and an id that is absent from a group enters it
\* only by the handling of a MemberRequest or a MemberResponse
C3_AliveNeverCreates ==
  [][/\ (HandleStep /\ HandledMsg.type = "Alive" /\ \A g \in DOMAIN peer_map : ~contains_peer(peer_map[g], HandledMsg.content.peer_id))
          => peer_map' = peer_map
     /\ \A g \in DOMAIN peer_map', id \in PeerIds :
          (~HasEntry(peer_map, g, id) /\ HasEntry(peer_map', g, id))
          => (HandleStep /\ HandledMsg.type \in {"MemberReq", "MemberRes"})
  ]_vars

\* an Alive of IdC has been handled after the sweep emptied GroupG
C3_Witness ==
  /\ h_pc = "unlock" /\ HandledMsg.type = "Alive" /\ HandledMsg.content.peer_id = IdC
  /\ GroupG \in DOMAIN peer_map /\ peer_map[GroupG] = <<>>
  /\ \A g \in DOMAIN peer_map : ~contains_peer(peer_map[g], IdC)

\* C4: remove_expired(now) removes exactly the entries whose expiry is
\* <= now, the one whose expiry equals now included, keeps those whose
\* expiry is > now, and keeps the survivors in order
C4_SweepRemovesExpiredInclusive ==
  m_last.op = "remove_expired" => m_peers = SelectSeq(m_last.before, LAMBDA e : e.ttl > m_last.now)

\* C5: decoding the 4 bytes of an encoded Header (version 0..15, a known
\* type, size 0..65535) yields the Header that was encoded
C5_HeaderRoundTrip ==
  (c_op = "header_roundtrip" /\ c_out # Pending) => c_out = Ok(c_in)

\* C6: decoding a Header, a payload or a whole Message never faults: it
\* returns a value or a typed error, whatever the buffer
C6_DecodeNeverFaults ==
  (c_op \in {"decode_header", "decode_content", "decode_message"} /\ c_out # Pending) => c_out.kind \in {"Ok", "Err"}

\* C7: a datagram that does not decode is dropped: the dispatcher goes on
\* to the next receive, the directory is unchanged, nothing is sent and
\* nothing is notified
C7_UndecodableDropped ==
  [][(h_pc = "recv" /\ h_packet' # None /\ Dispatch(h_packet'.data).kind # "Ok") =>
       (h_pc' = "recv" /\ peer_map' = peer_map /\ sent' = sent /\ msg_chan' = msg_chan)
  ]_vars

\* an activity is about to call transport.send or transport.recv
HbInSend == hb_pc = "iter" /\ hb_peers # <<>>
HandlerInIO == h_pc \in {"recv", "send_res"}
CmdInSend == (cmd_pc \in {"req", "chat"} /\ cmd_peers # <<>>) \/ (cmd_pc \in {"boot", "req_boot"} /\ bootstrap # None)

\* C8: the directory mutex is never held across network I/O: an activity
\* that is inside a transport send or recv does not hold it
C8_NoLockAcrossIO ==
  /\ HbInSend => ~Holding("hb")
  /\ HandlerInIO => ~Holding("handler")
  /\ CmdInSend => ~Holding("cmd")

ExpiredAtStart == {e \in hb_start.entries : e.ttl <= hb_start.now}
RoundEnd == hb_pc = "iter" /\ hb_groups = {} /\ hb_peers = <<>>
SentTo(g, id) == {k \in 1..Len(sent.hb) : sent.hb[k].entry.group = g /\ sent.hb[k].entry.id = id}

\* C10: in a heartbeat round the sweep runs before the broadcast: an entry
\* that is expired when the round starts is removed and gets no Alive in
\* the round, and every entry present after the sweep gets exactly one
\* Alive, sent to its address and carrying the local peer id
C10_SweepBeforeBroadcast ==
  /\ Holding("hb") => \A e \in ExpiredAtStart : SentTo(e.group, e.id) = {}
  /\ RoundEnd =>
       /\ \A e \in ExpiredAtStart : e \notin Entries(peer_map)
       /\ \A e \in Entries(peer_map) :
            /\ Cardinality(SentTo(e.group, e.id)) = 1
            /\ \A k \in SentTo(e.group, e.id) :
                 /\ sent.hb[k].to = e.addr
                 /\ Dispatch(sent.hb[k].data) = Ok([type |-> "Alive", content |-> AliveNew(Name)])

\* the members of a group before a step (none when the group does not exist)
MembersOf(group_map, g) == IF g \in DOMAIN group_map THEN group_map[g] ELSE <<>>
\* the step in which the dispatcher hands the response to the transport
ResponseStep == h_pc = "send_res" /\ h_pc' # "send_res"

\* C11: handling MemberRequest(B, g) from addr1 while B is not in g appends
\* one entry for B, bound to addr1, to the members g had (a response
\* follows when they fit one MemberResponse), and the MemberResponse that
\* is sent goes to addr1 and lists, in order, the members of g other than B
C11_JoinRegistersAndAnswers ==
  [][/\ (HandleStep /\ HandledMsg.type = "MemberReq" /\ ~HasEntry(peer_map, HandledMsg.content.group, HandledMsg.content.peer_id)) =>
          LET g == HandledMsg.content.group
              prior == MembersOf(peer_map, g)
          IN /\ Len(peer_map'[g]) = Len(prior) + 1
             /\ SubSeq(peer_map'[g], 1, Len(prior)) = prior
             /\ peer_map'[g][Len(prior) + 1].id = HandledMsg.content.peer_id
             /\ peer_map'[g][Len(prior) + 1].addr = h_packet.socket_addr
             /\ Len(prior) <= MAX_RES_PEERS => h_pc' = "send_res"
     /\ ResponseStep =>
          LET g == HandledMsg.content.group
              others == SelectSeq(peer_map[g], LAMBDA e : e.id # HandledMsg.content.peer_id)
          IN /\ Len(sent'.handler) = Len(sent.handler) + 1
             /\ sent'.handler[Len(sent'.handler)].to = h_packet.socket_addr
             /\ Dispatch(sent'.handler[Len(sent'.handler)].data) =
                  Ok([type |-> "MemberRes", content |-> [group |-> g, member_number |-> Len(others), peers |-> [i \in 1..Len(others) |-> <<others[i].id, others[i].addr>>]]])
  ]_vars

\* the request of IdC, coming from Addr2, has been answered in a group that
\* held IdB before: IdC is the newest entry, created by this request
C11_Witness ==
  /\ h_pc = "unlock" /\ HandledMsg.type = "MemberReq" /\ HandledMsg.content.peer_id = IdC
  /\ h_packet.socket_addr = Addr2
  /\ Len(peer_map[GroupG]) = 2 /\ peer_map[GroupG][1].id = IdB /\ peer_map[GroupG][2].id = IdC /\ peer_map[GroupG][2].addr = Addr2
  /\ history.born[<<GroupG, IdC>>] = [at |-> now, by |-> "MemberReq", alives |-> 0]
  /\ Len(sent.handler) = 1 /\ sent.handler[1].to = Addr2

\* the entry of a (group, id) key
EntryOf(group_map, k) == group_map[k[1]][find_peer_index(group_map[k[1]], k[2])]
\* the keys of the entries a MemberRequest created and no Alive renewed
UnrenewedJoins == {k \in DOMAIN history.born : history.born[k].by = "MemberReq" /\ history.born[k].alives = 0}

C13_ResponseEntriesGetGrace ==
  \A k \in DOMAIN history.born :
    (history.born[k].by = "MemberRes" /\ history.born[k].alives = 0)
    => EntryOf(peer_map, k).ttl = history.born[k].at + TTL_RENEWAL + GRACE_MARGIN

\* C14: when an Alive renews an entry, the new expiry is the time of the
\* last sweep plus the renewal TTL, whatever the expiry was: several Alives
\* between two sweeps leave the expiry a single one leaves, and renewals
\* never carry an expiry beyond last sweep + renewal TTL
C14_RenewalFromLastSweep ==
  [][(HandleStep /\ HandledMsg.type = "Alive") =>
       \A g \in DOMAIN peer_map : \A i \in 1..Len(peer_map[g]) :
         peer_map[g][i].id = HandledMsg.content.peer_id => peer_map'[g][i].ttl = history.sweep + TTL_RENEWAL
  ]_vars

\* C15: for every entry of the directory, one whose expiry has passed
\* included, the expiry check reports not expired right after update_ttl,
\* and it reports expired once the clock is past the expiry
C15_RenewedNotExpired ==
  /\ m_last.op = "update_ttl" => ~ttl_expired(m_peers[m_last.index], m_last.now)
  /\ \A i \in 1..Len(m_peers) : m_now > m_peers[i].ttl => ttl_expired(m_peers[i], m_now)

\* the dispatcher is in an arm that works on the directory
InArm == h_pc \in {"lock", "handle", "send_res", "unlock"}

\* C16: a frame whose first byte is not the magic constant is rejected: it
\* never reaches an arm of the dispatcher, so it changes no entry and gets
\* no response
C16_MagicRequired ==
  (h_packet # None /\ InArm) => (h_packet.data # <<>> /\ h_packet.data[1] = MAGIC_HEADER)

\* properties of strings and the zero-padded field of a string
Printable(str) == \A i \in 1..Len(str) : str[i] >= 32 /\ str[i] <= 126
NoZero(str) == \A i \in 1..Len(str) : str[i] # 0
ZeroPad(str, n) == str \o Zeros(n - Len(str))
\* the operation of the codec harness has returned
Returned == c_out # Pending

\* C17: for a group name and a peer id of printable ASCII, at most 32
\* bytes each, the encoded MemberRequest is 64 bytes, the group zero-padded
\* in bytes 0-31 and the peer id zero-padded in bytes 32-63, and decoding
\* these bytes yields the group name and the peer id
C17_RequestRoundTrip ==
  (/\ c_op \in {"encode_request", "request_roundtrip"} /\ Returned
   /\ Printable(c_in.group) /\ Len(c_in.group) <= NAME_LEN
   /\ Printable(c_in.peer_id) /\ Len(c_in.peer_id) <= NAME_LEN)
  => IF c_op = "encode_request"
     THEN /\ c_out.kind = "Ok" /\ Len(c_out.val) = REQ_LEN
          /\ SubSeq(c_out.val, 1, NAME_LEN) = ZeroPad(c_in.group, NAME_LEN)
          /\ SubSeq(c_out.val, NAME_LEN + 1, REQ_LEN) = ZeroPad(c_in.peer_id, NAME_LEN)
     ELSE c_out = Ok([group |-> c_in.group, peer_id |-> c_in.peer_id])

\* a request whose group fills its field came back from the round trip
C17_Witness ==
  /\ c_op = "request_roundtrip" /\ Returned
  /\ c_in.group = Str(NAME_LEN) /\ c_in.peer_id = MyGroup
  /\ c_out.kind = "Ok"

\* a MemberResponse within the length limits of the wire format
ResponseWithinLimits ==
  /\ Len(c_in.group) <= NAME_LEN /\ Len(c_in.peers) <= MAX_RES_PEERS
  /\ \A i \in 1..Len(c_in.peers) : Len(c_in.peers[i][1]) <= NAME_LEN
\* no name of the MemberResponse holds a zero byte
ResponseWithoutNul == NoZero(c_in.group) /\ \A i \in 1..Len(c_in.peers) : NoZero(c_in.peers[i][1])
\* the encoding has the wire layout; the round trip gives the value back
ResponseCodecExact ==
  IF c_op = "encode_response"
  THEN /\ c_out.kind = "Ok" /\ Len(c_out.val) = NAME_LEN + 1 + PEER_REC_LEN * Len(c_in.peers)
       /\ SubSeq(c_out.val, 1, NAME_LEN) = ZeroPad(c_in.group, NAME_LEN)
       /\ c_out.val[NAME_LEN + 1] = Len(c_in.peers)
       /\ \A i \in 1..Len(c_in.peers) :
            LET off == NAME_LEN + 1 + PEER_REC_LEN * (i - 1)
                addr == c_in.peers[i][2]
            IN SubSeq(c_out.val, off + 1, off + PEER_REC_LEN) = ZeroPad(c_in.peers[i][1], NAME_LEN) \o addr.ip \o <<addr.port \div 256, addr.port % 256>>
  ELSE c_out = Ok([group |-> c_in.group, member_number |-> Len(c_in.peers), peers |-> c_in.peers])

\* C18, as amended: for a MemberResponse with a group name of at most 32
\* bytes and at most 5 peers with ids of at most 32 bytes, none of these
\* names holding a zero byte, each peer takes 38 bytes after the 33-byte
\* prefix with the port big-endian, and decoding the encoding yields the
\* same group, count and (peer id, address, port) pairs in the same order
C18_ResponseRoundTrip ==
  (c_op \in {"encode_response", "response_roundtrip"} /\ Returned /\ ResponseWithinLimits /\ ResponseWithoutNul) => ResponseCodecExact

\* five peers, the first one at port 65022, came back from the round trip
C18_Witness ==
  /\ c_op = "response_roundtrip" /\ Returned
  /\ c_in.group = Str(NAME_LEN) /\ Len(c_in.peers) = MAX_RES_PEERS
  /\ c_in.peers[1] = <<Str(NAME_LEN), Addr2>>
  /\ c_out.kind = "Ok"

\* C18: the same for every MemberResponse within the length limits,
\* whatever bytes its names hold
C18_AnyNames ==
  (c_op \in {"encode_response", "response_roundtrip"} /\ Returned /\ ResponseWithinLimits) => ResponseCodecExact

\* C19: building and encoding a MemberResponse with 6 or more peers
\* fails with a FormatError and produces no bytes
C19_SixPeersRejected ==
  (c_op \in {"encode_response", "response_roundtrip"} /\ Returned /\ Len(c_in.peers) > MAX_RES_PEERS) => c_out = FormatError

\* a response of 6 peers with short names was refused
C19_Witness ==
  /\ c_op = "encode_response" /\ Returned
  /\ c_in.group = MyGroup /\ c_in.peers = PeerList(MAX_RES_PEERS + 1, IdB)
  /\ c_out = FormatError

\* a field of the input of an encoder is longer than the wire format allows
OverLength ==
  CASE c_op = "encode_request" -> Len(c_in.group) > NAME_LEN \/ Len(c_in.peer_id) > NAME_LEN
    [] c_op = "encode_response" -> Len(c_in.group) > NAME_LEN \/ \E i \in 1..Len(c_in.peers) : Len(c_in.peers[i][1]) > NAME_LEN
    [] c_op = "encode_chat" -> Len(c_in.peer_id) > NAME_LEN \/ Len(c_in.msg) > 255

\* C20: encoding an over-length field fails with a FormatError and writes
\* nothing: a group name or a peer id of more than 32 bytes in a
\* MemberRequest, a Chat or a peer record of a MemberResponse, and a Chat
\* message of more than 255 bytes
C20_OverLengthRejected ==
  (c_op \in {"encode_request", "encode_response", "encode_chat"} /\ Returned /\ OverLength) => c_out = FormatError

\* C21: a transport error on one datagram never ends the loop that issued
\* it: after a failed send of a heartbeat Alive, a MemberResponse, a
\* MemberRequest or a Chat, the heartbeat loop, the dispatcher and the
\* command loop are still running
C21_TransportErrorContinues ==
  /\ send_err.hb => hb_pc # "panicked"
  /\ send_err.handler => h_pc # "panicked"
  /\ send_err.cmd => cmd_pc # "panicked" /\ ~exited

\* C22: Peer::new reports a failure to its caller as an error value,
\* without faulting: when the socket cannot be bound, and when the peer id
\* or the group name is longer than 32 bytes
C22_ConstructionFailureTyped ==
  (c_op = "peer_new" /\ Returned /\ (~c_in.port_free \/ Len(c_in.name) > NAME_LEN \/ Len(c_in.group) > NAME_LEN)) => c_out.kind = "Err"

\* the datagram decodes as a message of type T with the given content
Carries(rec, T, content) == Dispatch(rec.data) = Ok([type |-> T, content |-> content])
\* the MemberRequest of the local peer
LocalRequest == [group |-> Group, peer_id |-> Name]
\* the datagrams are one per entry of the directory, each to its entry's address
OnePerEntry(datagrams, group_map) ==
  /\ Len(datagrams) = Cardinality(Entries(group_map))
  /\ \A e \in Entries(group_map) : \E i \in 1..Len(datagrams) :
       datagrams[i].to = e.addr /\ datagrams[i].entry = [group |-> e.group, id |-> e.id, addr |-> e.addr]

\* C23: on "req" the command loop sends one MemberRequest of the local
\* peer id and group to every peer of every group of the directory, then
\* one more to the bootstrap address when there is one, and no Chat
C23_ReqResendsToAll ==
  [][/\ (cmd_pc = "req" /\ cmd_pc' = "req_boot") =>
          /\ OnePerEntry(sent.cmd, peer_map)
          /\ \A i \in 1..Len(sent.cmd) : Carries(sent.cmd[i], "MemberReq", LocalRequest)
     /\ (cmd_pc = "req_boot" /\ cmd_pc' = "done") =>
          IF bootstrap.kind = "Some"
          THEN /\ Len(sent'.cmd) = Len(sent.cmd) + 1
               /\ SubSeq(sent'.cmd, 1, Len(sent.cmd)) = sent.cmd
               /\ sent'.cmd[Len(sent'.cmd)].to = bootstrap.val
               /\ Carries(sent'.cmd[Len(sent'.cmd)], "MemberReq", LocalRequest)
          ELSE sent'.cmd = sent.cmd]_vars

\* "req" with a peer in each of two groups and a bootstrap address: three
\* requests were sent
C23_Witness ==
  /\ cmd_pc = "done" /\ CmdKind(cmd_str) = "req" /\ bootstrap = Some(BootAddr)
  /\ Len(sent.cmd) = 3
  /\ {sent.cmd[i].to : i \in 1..3} = {Addr1, Addr2, BootAddr}

\* C24: a command line other than "peers" and "req" is sent as one Chat
\* datagram, carrying the local peer id and the line, to every peer of
\* every group of the directory of that moment, and to no other address
C24_ChatBroadcastToAll ==
  [][(cmd_pc = "chat" /\ cmd_pc' # "chat") =>
        /\ OnePerEntry(sent'.cmd, peer_map)
        /\ \A i \in 1..Len(sent'.cmd) : Carries(sent'.cmd[i], "Chat", [peer_id |-> Name, msg |-> cmd_str])]_vars

\* the entries a snapshot of the directory shows
Shown(snapshot) == UNION {{[group |-> g, id |-> snapshot[g][i][1], addr |-> snapshot[g][i][2]] : i \in 1..Len(snapshot[g])} : g \in DOMAIN snapshot}
\* the entries of the directory without their expiry
Listed(group_map) == {[group |-> e.group, id |-> e.id, addr |-> e.addr] : e \in Entries(group_map)}

\* C25: on "peers" the command loop puts exactly one notification on the
\* outbound channel, a snapshot of the directory as it is at that moment
\* under the local peer id, and hands no datagram to the transport
C25_PeersEmitsSnapshot ==
  [][/\ (cmd_pc = "peers" /\ cmd_pc' # "peers") =>
          /\ Len(msg_chan') = Len(msg_chan) + 1
          /\ SubSeq(msg_chan', 1, Len(msg_chan)) = msg_chan
          /\ msg_chan'[Len(msg_chan')][1] = Name
          /\ DOMAIN msg_chan'[Len(msg_chan')][2] = DOMAIN peer_map
          /\ Shown(msg_chan'[Len(msg_chan')][2]) = Listed(peer_map)
          /\ peer_map' = peer_map /\ sent' = sent
     /\ (cmd_pc' \in {"lock", "peers"} /\ cmd_pc' # cmd_pc /\ CmdKind(cmd_str') = "peers") =>
          msg_chan' = msg_chan /\ sent' = sent]_vars

\* "peers" was answered with a snapshot showing a peer in each of two groups
C25_Witness ==
  /\ env.commands # {} /\ env.inbound = ReqPackets
  /\ cmd_pc = "wait" /\ Len(msg_chan) = 1
  /\ msg_chan[1][1] = Name
  /\ Shown(msg_chan[1][2]) = {[group |-> GroupG, id |-> IdC, addr |-> Addr2], [group |-> GroupH, id |-> IdB, addr |-> Addr1]}

\* C26: with a bootstrap address exactly one MemberRequest is sent to it
\* after the runtime starts and before the command loop consumes its first
\* command; without one no MemberRequest is sent at start-up
C26_BootstrapRequestOnce ==
  [][/\ (cmd_pc = "boot" /\ cmd_pc' # "boot") =>
          IF bootstrap.kind = "Some"
          THEN /\ Len(sent'.cmd) = 1
               /\ sent'.cmd[1].to = bootstrap.val
               /\ Carries(sent'.cmd[1], "MemberReq", LocalRequest)
          ELSE sent'.cmd = <<>>
     /\ cmd_pc = "boot" => cmd_str = <<>> /\ sent.cmd = <<>>
     /\ cmd_str' # cmd_str /\ cmd_str' # <<>> => cmd_pc = "wait"
     /\ cmd_pc' = "boot" => cmd_pc = "boot"]_vars

\* the start-up request went to the bootstrap address and no command was
\* consumed yet
C26_Witness ==
  /\ cmd_pc = "done" /\ cmd_str = <<>> /\ bootstrap = Some(BootAddr)
  /\ Len(sent.cmd) = 1 /\ sent.cmd[1].to = BootAddr
  /\ Carries(sent.cmd[1], "MemberReq", LocalRequest)

\* the (peer id, message) pairs of the Chat datagrams the network may deliver
ChatPairs == {<<Dispatch(pkt.data).val.content.peer_id, Dispatch(pkt.data).val.content.msg>> : pkt \in {q \in env.inbound : Dispatch(q.data).kind = "Ok" /\ Dispatch(q.data).val.type = "Chat"}}

\* C27: handling a Chat datagram forwards its (peer id, message) pair to
\* the outbound channel and leaves the directory unchanged; when the
\* channel send fails only that message is lost and the dispatcher goes on
\* with the next datagram
C27_ChatForwarded ==
  [][/\ (h_pc = "recv" /\ cmd_pc # "peers" /\ Len(msg_chan') > Len(msg_chan)) =>
          /\ \E pair \in ChatPairs : msg_chan' = Append(msg_chan, pair)
          /\ peer_map' = peer_map /\ sent' = sent /\ h_pc' = "recv"
     /\ (h_pc = "recv" /\ h_msg' # None /\ h_msg'.type = "Chat") =>
          /\ h_pc' = "recv"
          /\ peer_map' = peer_map /\ msg_chan' = msg_chan]_vars

\* the type codes of the wire format
WireCode(t) == CASE t = "Alive" -> 1 [] t = "MemberReq" -> 2 [] t = "MemberRes" -> 4 [] t = "Chat" -> 8

\* C28: a Header is encoded in exactly 4 bytes: the magic constant 0x9D,
\* then (version << 4) | type code with Alive 1, MemberReq 2, MemberRes 4
\* and Chat 8, then the size in big-endian order, for every version in
\* 0..15 and size in 0..65535
C28_HeaderLayout ==
  (c_op = "encode_header" /\ Returned /\ c_in.version \in 0..15 /\ c_in.size \in 0..65535) =>
    /\ c_out.kind = "Ok" /\ Len(c_out.val) = 4
    /\ \A i \in 1..4 : c_out.val[i] \in Byte
    /\ c_out.val[1] = 157
    /\ c_out.val[2] = c_in.version * 16 + WireCode(c_in.msg_type)
    /\ c_out.val[3] * 256 + c_out.val[4] = c_in.size

\* version 15, type Chat, size 501 was encoded as 9D F8 01 F5
C28_Witness ==
  /\ c_op = "encode_header" /\ Returned
  /\ c_in = HeaderNew(15, "Chat", 501)
  /\ c_out = Ok(<<157, 248, 1, 245>>)

\* C29: handling an Alive of peer id p adds the renewal TTL to the expiry
\* of the entry of p in every group that holds one and changes nothing
\* else: no entry is added or removed, no address changes, no other
\* entry's expiry changes
C29_AliveOnlyRenews ==
  [][(HandleStep /\ HandledMsg.type = "Alive") =>
        /\ DOMAIN peer_map' = DOMAIN peer_map
        /\ \A g \in DOMAIN peer_map :
             /\ Len(peer_map'[g]) = Len(peer_map[g])
             /\ \A i \in 1..Len(peer_map[g]) :
                  /\ peer_map'[g][i].id = peer_map[g][i].id
                  /\ peer_map'[g][i].addr = peer_map[g][i].addr
                  /\ peer_map'[g][i].ttl = IF peer_map[g][i].id = HandledMsg.content.peer_id
                                           THEN peer_map[g][i].ttl + TTL_RENEWAL
                                           ELSE peer_map[g][i].ttl]_vars

\* an Alive of C, sent from C's address of group g, was handled: C is
\* renewed in both groups and keeps its other address in group h, B is not
C29_Witness ==
  /\ h_pc = "unlock" /\ HandledMsg.type = "Alive" /\ HandledMsg.content.peer_id = IdC
  /\ h_packet.socket_addr = Addr2
  /\ [group |-> GroupG, id |-> IdC, addr |-> Addr2, ttl |-> GRACE_MARGIN + 2 * TTL_RENEWAL] \in Entries(peer_map)
  /\ [group |-> GroupH, id |-> IdC, addr |-> Addr1, ttl |-> GRACE_MARGIN + 2 * TTL_RENEWAL] \in Entries(peer_map)
  /\ [group |-> GroupG, id |-> IdB, addr |-> Addr1, ttl |-> GRACE_MARGIN + TTL_RENEWAL] \in Entries(peer_map)

\* the directory holds an entry of the peer in the group with this expiry
HasTtl(group_map, g, id, ttl) == \E e \in Entries(group_map) : e.group = g /\ e.id = id /\ e.ttl = ttl
\* the expiries of an entry created by a MemberRequest at start-up and
\* renewed up to MaxAlives times
Expiries == {TTL_RENEWAL + GRACE_MARGIN + n * TTL_RENEWAL : n \in 0..MaxAlives}

\* C30: an entry for which no further Alive is processed is eventually
\* removed, whatever number of Alives it received before: as long as the
\* heartbeat loop keeps running, an entry with a given expiry does not keep
\* it for ever (it is renewed or it goes), and an entry only goes in a
\* sweep of the heartbeat loop that runs after its expiry
C30_ExpiredEventuallySwept ==
  /\ \A g \in Groups, id \in PeerIds, ttl \in Expiries :
       HasTtl(peer_map, g, id, ttl) ~> ~HasTtl(peer_map, g, id, ttl)
  /\ [][\A e \in Entries(peer_map) :
          ~HasEntry(peer_map', e.group, e.id) => (hb_pc = "iter" /\ lock = "hb" /\ e.ttl < now)]_vars

\* the sweep at the horizon removed an entry that two Alives had renewed
C30_Witness ==
  /\ RoundEnd /\ hb_start.now = SweepHorizon
  /\ [group |-> GroupG, id |-> IdC, addr |-> Addr2, ttl |-> GRACE_MARGIN + 3 * TTL_RENEWAL] \in hb_start.entries
  /\ ~HasEntry(peer_map, GroupG, IdC)

\* the peer of the entry has been live so far: the first Alive of its peer
\* id is not overdue (the grace TTL since the creation has not passed), or
\* one Alive was processed within the grace TTL and one more for every
\* heartbeat period that passed since
LiveSoFar(h, k, t) ==
  LET age == t - h.born[k].at
  IN IF age <= TTL_RENEWAL + GRACE_MARGIN THEN TRUE
     ELSE h.born[k].alives >= 1 + ((age - (TTL_RENEWAL + GRACE_MARGIN)) \div TTL_RENEWAL)

\* C31: an entry is never swept while its peer stays live: no step removes
\* an entry whose peer id, from the entry's creation on, had an Alive
\* processed per heartbeat period, the first one within the grace TTL
C31_LivePeerNeverSwept ==
  [][\A k \in Keys(peer_map) \ Keys(peer_map') : ~LiveSoFar(history, k, now)]_vars

\* the number of peers a sent datagram lists when it is a MemberResponse
ListedPeers(rec) ==
  LET d == Dispatch(rec.data)
  IN IF d.kind = "Ok" /\ d.val.type = "MemberRes" THEN Len(d.val.content.peers) ELSE 0

\* C32: handling a MemberRequest never ends the dispatcher, whatever the
\* size of the group: the MemberReq arm always goes on to send its response
\* (and from there back to the receive loop), and every MemberResponse the
\* dispatcher sends lists at most MAX_RES_PEERS peers
C32_MemberReqNeverStopsDispatcher ==
  [][/\ (HandleStep /\ HandledMsg.type = "MemberReq") => h_pc' = "send_res"
     /\ \A i \in 1..Len(sent'.handler) : ListedPeers(sent'.handler[i]) <= MAX_RES_PEERS]_vars

\* how many records of a queue or log carry a message of sender i
Occurrences(q, i) == Cardinality({k \in 1..Len(q) : q[k].from = i})

\* C33: the Router delivers every message exactly once. Whatever the
\* interleaving of the senders, a message that was sent is either still in
\* the channel or was returned by exactly one call, never both and never
\* twice; what a call returns is handler.process of the oldest message;
\* recv never returns an error, and recv_timeout returns Err(Timeout), and
\* returns no message, exactly when the channel is empty as the timeout passes
C33_RouterDeliversOnce ==
  /\ [](/\ \A i \in DOMAIN r_senders :
            Occurrences(r_chan, i) + Occurrences(r_log, i) = (IF r_senders[i] = "sent" THEN 1 ELSE 0)
        /\ \A k \in 1..Len(r_log) : r_log[k].result = process(MsgOf(r_log[k].from)))
  /\ [][(r_pc \in {"recv", "recv_timeout"} /\ r_pc' = "idle") =>
          IF r_chan = <<>>
          THEN r_pc = "recv_timeout" /\ r_ret' = TimeoutError /\ r_log' = r_log /\ r_chan' = r_chan
          ELSE /\ r_ret' = Ok(process(Head(r_chan).msg)) /\ r_chan' = Tail(r_chan)
               /\ r_log' = Append(r_log, [from |-> Head(r_chan).from, result |-> r_ret'.val])]_vars

\* every sender has sent, every message was returned once, both recv and
\* recv_timeout returning some, and the next recv_timeout timed out
C33_Witness ==
  /\ \A i \in DOMAIN r_senders : r_senders[i] = "sent" /\ Occurrences(r_log, i) = 1
  /\ DOMAIN r_senders # {} /\ r_chan = <<>> /\ r_ret = TimeoutError /\ r_pc = "idle"
  /\ r_log[1].from = 2 /\ r_log[1].result.header.size = 2

\* s is t with some elements left out, the others in the same order
RECURSIVE IsSubSeq(_, _)
IsSubSeq(s, t) ==
  IF s = <<>> THEN TRUE
  ELSE IF t = <<>> THEN FALSE
  ELSE IF Head(s) = Head(t) THEN IsSubSeq(Tail(s), Tail(t)) ELSE IsSubSeq(s, Tail(t))

\* the ids a NeighbourMap harness step may ask for
MapIds == PeerIds \cup {Name}

\* C34: NeighbourMap keeps insertion order and looks up by peer id. In
\* every state contains_peer(id) is true exactly when iter() yields an
\* entry with that id, and find_peer(id) is the first such entry; an insert
\* adds its entry after every entry iter() yielded before, so that the
\* earlier-inserted entry of an id stays the one find_peer returns; and
\* remove_expired, the only removal, leaves the remaining entries in the
\* order they had
C34_InsertionOrderAndLookup ==
  /\ [](\A id \in MapIds :
          /\ contains_peer(m_peers, id) <=> \E k \in 1..Len(iter(m_peers)) : iter(m_peers)[k].id = id
          /\ contains_peer(m_peers, id) =>
               /\ iter(m_peers)[find_peer_index(m_peers, id)].id = id
               /\ \A k \in 1..(find_peer_index(m_peers, id) - 1) : iter(m_peers)[k].id # id
          /\ ~contains_peer(m_peers, id) => find_peer_index(m_peers, id) = 0)
  /\ [][/\ m_last'.op = "insert" =>
             /\ iter(m_peers') = Append(iter(m_peers), m_last'.entry)
             /\ \A id \in MapIds :
                  /\ contains_peer(m_peers', id) <=> (contains_peer(m_peers, id) \/ id = m_last'.entry.id)
                  /\ contains_peer(m_peers, id) => find_peer_index(m_peers', id) = find_peer_index(m_peers, id)
        /\ m_last'.op = "remove_expired" =>
             /\ IsSubSeq(iter(m_peers'), iter(m_peers))
             /\ \A id \in MapIds : contains_peer(m_peers', id) <=> \E k \in 1..Len(m_peers) : m_peers[k].id = id /\ ~ttl_expired(m_peers[k], m_now)
        /\ m_last'.op \in {"tick", "update_ttl"} => [k \in 1..Len(m_peers') |-> m_peers'[k].id] = [k \in 1..Len(m_peers) |-> m_peers[k].id]]_vars

\* a second entry of peer id B was inserted last, after one of C: find_peer
\* still returns the first-inserted entry of B, and Name was never inserted
C34_Witness ==
  /\ m_last.op = "insert" /\ Len(m_peers) = 3
  /\ m_peers[1].id = IdB /\ m_peers[2].id = IdC /\ m_peers[3].id = IdB /\ m_peers[1].ttl # m_peers[3].ttl
  /\ find_peer_index(m_peers, IdB) = 1 /\ iter(m_peers)[3] = m_last.entry
  /\ ~contains_peer(m_peers, Name)

\* the decoded message of a datagram
Decoded(d) == Dispatch(d.data).val
\* the entries a node holds for a peer id, in any group
EntriesFor(n, id) == {e \in Entries(n_dir[n]) : e.id = id}

\* the entries A holds for B
BInA == EntriesFor(NodeA, NodeB.id)

\* C35: a responder never lists itself. While B bootstraps through A and
\* no command is fed, every MemberResponse sent to B lists no peer, B's
\* directory never holds an entry for A, B never sends an Alive, the expiry
\* of the entry A holds for B is never renewed, and once A has swept at a
\* clock beyond that expiry (the grace TTL after B's request) A holds no
\* entry for B, although B is still running
C35_ResponderNeverListsItself ==
  /\ [](/\ \A d \in n_hist.sent : (d.to = NodeB.addr /\ Decoded(d).type = "MemberRes") => Decoded(d).content.peers = <<>>
        /\ NodeB \in DOMAIN n_dir => EntriesFor(NodeB, NodeA.id) = {}
        /\ \A d \in n_hist.sent : d.from = NodeB.addr => Decoded(d).type = "MemberReq"
        /\ NodeA \in DOMAIN n_dir => \A e \in EntriesFor(NodeA, NodeB.id) : e.ttl >= n_hist.swept[NodeA])
  /\ [][(NodeA \in DOMAIN n_dir) =>
          (\A e \in BInA' : IF BInA = {} THEN e.ttl = n_now + TTL_RENEWAL + GRACE_MARGIN ELSE e \in BInA)]_vars

\* B bootstrapped at time 0 and got A's empty MemberResponse; A has swept
\* beyond the grace TTL and holds its group without B, while B is running
\* and holds the group without any entry
C35_Witness ==
  /\ n_run = PairRun /\ NodeB \in n_up /\ n_net = {}
  /\ \E d \in n_hist.sent : d.to = NodeB.addr /\ Decoded(d).type = "MemberRes"
  /\ n_hist.swept[NodeA] > TTL_RENEWAL + GRACE_MARGIN /\ n_hist.swept[NodeA] < 2 * TTL_RENEWAL + GRACE_MARGIN + NetStep
  /\ n_dir[NodeA] = (GroupG :> <<>>) /\ n_dir[NodeB] = (GroupG :> <<>>)

\* C36: no node's directory ever holds an entry for the node's own peer
\* id, in any group, whatever MemberRequests, MemberResponses and Alives
\* were handled, sweeps were run and "req" commands were fed on three nodes
\* with distinct ids and addresses
C36_NoSelfEntry ==
  \A n \in DOMAIN n_dir : EntriesFor(n, n.id) = {}

\* the ids a node holds entries for
Known(n) == {e.id : e \in Entries(n_dir[n])}

\* after a "req" of A, which knew B, A and B each know both other nodes and
\* not themselves: B learnt A from A's request and answered it with C
C36_Witness ==
  /\ n_run = TrioRun /\ n_cmds = MaxReqs
  /\ Known(NodeA) = {NodeB.id, NodeC.id} /\ Known(NodeB) = {NodeA.id, NodeC.id}
  /\ n_now > 0 /\ n_net = {}

\* the step is one of the keep-alive thread, the dispatcher, the command loop
HbStep == hb_vars' # hb_vars
DispatcherStep == <<h_pc, h_packet, h_msg>>' # <<h_pc, h_packet, h_msg>> \/ (h_pc = "recv" /\ Len(msg_chan') > Len(msg_chan))
CommandStep == cmd_vars' # cmd_vars
\* the dispatcher receives a Chat datagram and runs its arm
ChatStep == h_pc = "recv" /\ (Len(msg_chan') > Len(msg_chan) \/ (h_pc' = "panicked" /\ h_msg' # None))

\* C37: directory mutations are partitioned by activity. A step that
\* removes an entry is a step of the keep-alive round under its lock, and
\* it adds and renews nothing; any other change of the directory (a group
\* or an entry added, an expiry renewed) is the step of the dispatcher that
\* runs an Alive, MemberReq or MemberRes arm under its lock; no step of the
\* command loop and no handling of a Chat datagram changes the directory
C37_MutationsPartitioned ==
  [][/\ (Keys(peer_map) \ Keys(peer_map') # {}) =>
          /\ HbStep /\ lock = "hb"
          /\ Entries(peer_map') \subseteq Entries(peer_map) /\ DOMAIN peer_map' = DOMAIN peer_map
     /\ (peer_map' # peer_map /\ Keys(peer_map) \subseteq Keys(peer_map')) =>
          DispatcherStep /\ lock = "handler" /\ h_pc = "handle" /\ h_msg.type \in {"Alive", "MemberReq", "MemberRes"}
     /\ (CommandStep \/ ChatStep) => peer_map' = peer_map]_vars

\* a sweep has run, a peer registered by its MemberRequest is held and the
\* command loop is sending to the directory's entries
C37_Witness ==
  /\ history.sweep > 0 /\ Keys(peer_map) # {} /\ lock = "cmd" /\ Len(sent.cmd) > 0
  /\ \E k \in DOMAIN history.born : history.born[k].by = "MemberReq"

\* C38: a fault in one activity does not stop the others from using the
\* directory. Once the dispatcher or the command loop has panicked, it does
\* not hold the mutex, and each remaining activity that asks for the mutex
\* while it is free gets it, poisoned or not
C38_FaultDoesNotStopOthers ==
  (h_pc = "panicked" \/ cmd_pc = "panicked") =>
     /\ h_pc = "panicked" => lock # "handler"
     /\ cmd_pc = "panicked" => lock # "cmd"
     /\ (hb_pc = "lock" /\ lock = "none") => ENABLED HbLock
     /\ (h_pc = "lock" /\ lock = "none") => ENABLED HLock
     /\ (cmd_pc = "lock" /\ lock = "none") => ENABLED CmdLock

====
